---- MODULE Spec2Model ----
(***************************************************************************)
(* A model of the vason raster engine (src/src/canvas.rs): a Canvas wraps  *)
(* a caller-supplied row-major buffer of packed colours and draws          *)
(* primitives into it.  Every public method is one action; the method      *)
(* bodies are operators over a canvas record, translated statement by      *)
(* statement.  Panics (a failed assert!, a clamp with min > max, a slice   *)
(* range out of order or out of bounds, a checked index out of bounds) set *)
(* the record's `failed` flag and stop the method.                         *)
(***************************************************************************)
EXTENDS Integers, Sequences, FiniteSets, TLC

(* ------------------------------ bounds -------------------------------- *)

\* canvases of the main specification have width 0..MaxW and height 0..MaxH
MaxW == 2
MaxH == 2
\* coordinates reach this far beyond the canvas on every side
Reach == 2
\* widths, heights, radii and semi-axes range over -1..MaxSize
MaxSize == 3
\* thicknesses range over 0..MaxThick
MaxThick == 2
\* canvases of the flood-fill specification have width 1..FloodW, height 1..FloodH
FloodW == 3
FloodH == 3
MaxLarge == 2048
LoopDepth == 12

\* i32::MAX
I32Max == 2147483647
\* Color::RED and Color::GREEN as packed u32 values
RED == 16711680
GREEN == 65280

\* packed colours (u32 values) used as pixel contents and as draw colours
Colors == {0, 1}

Widths == 0..MaxW
Heights == 0..MaxH
Xs == (0 - Reach)..(MaxW + Reach - 1)
Ys == (0 - Reach)..(MaxH + Reach - 1)
Sizes == (0 - 1)..MaxSize
Thicknesses == (0 - 1)..MaxThick

(* ------------------------------ state --------------------------------- *)

VARIABLES
    status,          \* "uninit": Canvas::new not yet called; "ok"; "failed": a panic
    buffer,          \* the caller's storage, borrowed by the canvas: [0..len-1 -> colour]
    width,
    height,
    clamped_width,
    clamped_height,
    before,          \* history: the buffer when the last method was entered
    last,            \* history: the last method called and its arguments
    writes,          \* history: the <<x, y>> targets the last method stored to
    written,         \* the bytes the writer of the last ppm call has received
    returned,        \* the value the last call of a Color function returned, in << >>
    pen,             \* the PenState of the Pen that borrows the canvas, in << >>
    stack            \* the frames of the running calls of flood_fill_start and _core

vars == <<status, buffer, width, height, clamped_width, clamped_height,
          before, last, writes, written, returned, pen, stack>>

(* ------------------------------ helpers ------------------------------- *)

Min(a, b) == IF a < b THEN a ELSE b

Max(a, b) == IF a > b THEN a ELSE b

Abs(a) == IF a < 0 THEN 0 - a ELSE a

\* Ord::clamp; the caller checks min <= max first (clamp panics otherwise)
Clamp(v, lo, hi) == IF v < lo THEN lo ELSE IF v > hi THEN hi ELSE v

BufLen(buf) == Cardinality(DOMAIN buf)

\* all slices of colours of length n
Slices(n) == [0..(n - 1) -> Colors]

\* the canvas as the methods see it (&mut self), with the history they add to
Self ==
    [buffer |-> buffer, width |-> width, height |-> height,
     clamped_width |-> clamped_width, clamped_height |-> clamped_height,
     writes |-> {}, failed |-> FALSE]

Panic(cv) == [cv EXCEPT !.failed = TRUE]

(* ---------------------- unchecked and span writers -------------------- *)

\* set_pixel_unchecked_raw_i32: an unchecked store at y*width + x.  A store
\* outside the buffer is undefined behaviour (a panic under debug_assert!);
\* it is recorded in writes and marked failed.
set_pixel_unchecked_raw_i32(cv, x, y, raw_color) ==
    IF cv.failed THEN cv
    ELSE LET idx == y * cv.width + x
             cw == [cv EXCEPT !.writes = @ \cup {<<x, y>>}]
         IN  IF x >= 0 /\ y >= 0 /\ idx \in DOMAIN cv.buffer
             THEN [cw EXCEPT !.buffer[idx] = raw_color]
             ELSE Panic(cw)

\* slice.fill(raw_color) on buf[lo..hi]: a store into each element of the range
RECURSIVE Filled(_, _, _, _)
Filled(buf, lo, hi, raw_color) ==
    IF lo >= hi THEN buf
    ELSE Filled([buf EXCEPT ![lo] = raw_color], lo + 1, hi, raw_color)

\* self.buffer[offset + from_x .. offset + to_x].fill(raw_color), offset = row*width;
\* a range that is out of order or out of bounds panics (the targets are recorded)
FillSpan(cv, row, from_x, to_x, raw_color) ==
    IF cv.failed THEN cv
    ELSE LET offset == row * cv.width
             lo == offset + from_x
             hi == offset + to_x
         IN  IF lo > hi THEN Panic(cv)
             ELSE IF lo < 0 \/ hi > BufLen(cv.buffer)
             THEN Panic([cv EXCEPT !.writes = @ \cup {<<x, row>> : x \in from_x..(to_x - 1)}])
             ELSE [cv EXCEPT
                     !.buffer = Filled(@, lo, hi, raw_color),
                     !.writes = @ \cup {<<x, row>> : x \in from_x..(to_x - 1)}]

(* ------------------------------ methods ------------------------------- *)

\* Canvas::clear
clear(cv, raw_color) ==
    [cv EXCEPT !.buffer = [i \in DOMAIN cv.buffer |-> raw_color],
               !.writes = {<<i % Max(cv.width, 1), i \div Max(cv.width, 1)>> :
                             i \in DOMAIN cv.buffer}]

\* set_pixel whose bounds test admits x = width and y = height
set_pixel_inclusive(cv, x, y, raw_color) ==
    IF 0 <= x /\ x <= cv.clamped_width /\ 0 <= y /\ y <= cv.clamped_height
    THEN set_pixel_unchecked_raw_i32(cv, x, y, raw_color)
    ELSE cv

\* Canvas::set_pixel
set_pixel(cv, x, y, raw_color) ==
    IF 0 <= x /\ x < cv.clamped_width /\ 0 <= y /\ y < cv.clamped_height
    THEN set_pixel_unchecked_raw_i32(cv, x, y, raw_color)
    ELSE cv

\* clamp_rect_i32 treating xmax and ymax as inclusive ends
clamp_rect_i32_inclusive(cv, xmin, xmax, ymin, ymax) ==
    IF 0 > cv.clamped_width - 1 THEN <<>>
    ELSE LET from_x == Clamp(xmin, 0, cv.clamped_width - 1)
         IN  IF from_x > cv.clamped_width THEN <<>>
             ELSE IF 0 > cv.clamped_height - 1 THEN <<>>
             ELSE LET from_y == Clamp(ymin, 0, cv.clamped_height - 1)
                  IN  IF from_y > cv.clamped_height THEN <<>>
                      ELSE <<from_x, Clamp(xmax + 1, from_x, cv.clamped_width),
                             from_y, Clamp(ymax + 1, from_y, cv.clamped_height)>>

\* Canvas::clamp_rect_i32: <<from_x, to_x, from_y, to_y>>, or <<>> when a clamp panics
clamp_rect_i32(cv, xmin, xmax, ymin, ymax) ==
    IF 0 > cv.clamped_width - 1 THEN <<>>
    ELSE LET from_x == Clamp(xmin, 0, cv.clamped_width - 1)
         IN  IF from_x > cv.clamped_width THEN <<>>
             ELSE IF 0 > cv.clamped_height - 1 THEN <<>>
             ELSE LET from_y == Clamp(ymin, 0, cv.clamped_height - 1)
                  IN  IF from_y > cv.clamped_height THEN <<>>
                      ELSE <<from_x, Clamp(xmax, from_x, cv.clamped_width),
                             from_y, Clamp(ymax, from_y, cv.clamped_height)>>

\* the row loop of fill_rect: for _ in from_y..to_y { fill; from_idx += width; ... }
RECURSIVE FillRows(_, _, _, _, _, _)
FillRows(cv, row, to_y, from_x, to_x, raw_color) ==
    IF row >= to_y \/ cv.failed THEN cv
    ELSE FillRows(FillSpan(cv, row, from_x, to_x, raw_color),
                  row + 1, to_y, from_x, to_x, raw_color)

\* Canvas::fill_rect
fill_rect(cv, x, y, w, h, raw_color) ==
    LET r == clamp_rect_i32(cv, x, x + w, y, y + h)
    IN  IF r = <<>> THEN Panic(cv)
        ELSE FillRows(cv, r[3], r[4], r[1], r[2], raw_color)

\* hline that leaves out the pixel of its larger end point
hline_exclusive(cv, y, x1, x2, raw_color) ==
    IF cv.failed THEN cv
    ELSE IF 0 <= y /\ y < cv.clamped_height
    THEN LET a == IF x1 > x2 THEN x2 ELSE x1
             b == IF x1 > x2 THEN x1 ELSE x2
         IN  IF 0 > cv.clamped_width - 1 THEN Panic(cv)
             ELSE LET from_x == Clamp(a, 0, cv.clamped_width - 1)
                  IN  IF from_x > cv.clamped_width THEN Panic(cv)
                      ELSE FillSpan(cv, y, from_x,
                                    Clamp(b, from_x, cv.clamped_width), raw_color)
    ELSE cv

\* Canvas::hline
hline(cv, y, x1, x2, raw_color) ==
    IF cv.failed THEN cv
    ELSE IF 0 <= y /\ y < cv.clamped_height
    THEN LET a == IF x1 > x2 THEN x2 ELSE x1
             b == IF x1 > x2 THEN x1 ELSE x2
         IN  IF 0 > cv.clamped_width - 1 THEN Panic(cv)
             ELSE LET from_x == Clamp(a, 0, cv.clamped_width - 1)
                  IN  IF from_x > cv.clamped_width THEN Panic(cv)
                      ELSE FillSpan(cv, y, from_x,
                                    Clamp(b + 1, from_x, cv.clamped_width), raw_color)
    ELSE cv

\* for y in from_y..to_y { set_pixel_unchecked_raw_i32(x, y, raw_color) }
RECURSIVE ColumnPixels(_, _, _, _, _)
ColumnPixels(cv, x, y, to_y, raw_color) ==
    IF y >= to_y \/ cv.failed THEN cv
    ELSE ColumnPixels(set_pixel_unchecked_raw_i32(cv, x, y, raw_color),
                      x, y + 1, to_y, raw_color)

\* vline whose lower end is not clamped to the canvas height
vline_unclamped(cv, x, y1, y2, raw_color) ==
    IF cv.failed THEN cv
    ELSE IF 0 <= x /\ x < cv.clamped_width
    THEN LET a == IF y1 > y2 THEN y2 ELSE y1
             b == IF y1 > y2 THEN y1 ELSE y2
         IN  IF 0 > cv.clamped_height - 1 THEN Panic(cv)
             ELSE LET from_y == Clamp(a, 0, cv.clamped_height - 1)
                  IN  ColumnPixels(cv, x, from_y, Max(b + 1, from_y), raw_color)
    ELSE cv

\* Canvas::vline
vline(cv, x, y1, y2, raw_color) ==
    IF cv.failed THEN cv
    ELSE IF 0 <= x /\ x < cv.clamped_width
    THEN LET a == IF y1 > y2 THEN y2 ELSE y1
             b == IF y1 > y2 THEN y1 ELSE y2
         IN  IF 0 > cv.clamped_height - 1 THEN Panic(cv)
             ELSE LET from_y == Clamp(a, 0, cv.clamped_height - 1)
                  IN  IF from_y > cv.clamped_height THEN Panic(cv)
                      ELSE ColumnPixels(cv, x, from_y,
                                        Clamp(b + 1, from_y, cv.clamped_height), raw_color)
    ELSE cv

\* Canvas::outline_rect
outline_rect(cv, x, y, w, h, raw_color) ==
    IF w <= 0 \/ h <= 0 THEN cv
    ELSE LET x1 == x
             x2 == x + w - 1
             y1 == y
             y2 == y + h - 1
             Rows(c0) ==
                 IF x2 >= 0 /\ y1 < c0.clamped_height
                 THEN IF 0 > c0.clamped_width - 1 THEN Panic(c0)
                      ELSE LET from_x == Clamp(x1, 0, c0.clamped_width - 1)
                               to_x == Min(x2 + 1, c0.clamped_width)
                               top == IF 0 <= y1
                                      THEN FillSpan(c0, y1, from_x, to_x, raw_color)
                                      ELSE c0
                           IN  IF 0 <= y2 /\ y2 < c0.clamped_height
                               THEN FillSpan(top, y2, from_x, to_x, raw_color)
                               ELSE top
                 ELSE c0
             Columns(c0) ==
                 IF c0.failed THEN c0
                 ELSE IF y2 >= 0 /\ x1 < c0.clamped_width
                 THEN IF 0 > c0.clamped_height - 1 THEN Panic(c0)
                      ELSE LET from_y == Clamp(y1, 0, c0.clamped_height - 1)
                               to_y == Min(y2, c0.clamped_height)
                               left == IF 0 <= x1
                                       THEN ColumnPixels(c0, x1, from_y, to_y, raw_color)
                                       ELSE c0
                           IN  IF 0 <= x2 /\ x2 < c0.clamped_width
                               THEN ColumnPixels(left, x2, from_y, to_y, raw_color)
                               ELSE left
                 ELSE c0
         IN  Columns(Rows(cv))

\* for i in from_i..to_i { set_pixel_unchecked_raw_i32(i, j, raw_color) }
RECURSIVE RowPixels(_, _, _, _, _)
RowPixels(cv, i, to_i, j, raw_color) ==
    IF i >= to_i \/ cv.failed THEN cv
    ELSE RowPixels(set_pixel_unchecked_raw_i32(cv, i, j, raw_color),
                   i + 1, to_i, j, raw_color)

\* for j in from_y..to_y { for i in from_i..to_i { set_pixel_unchecked_raw_i32 } }
RECURSIVE BlockPixels(_, _, _, _, _, _)
BlockPixels(cv, j, to_y, from_i, to_i, raw_color) ==
    IF j >= to_y \/ cv.failed THEN cv
    ELSE BlockPixels(RowPixels(cv, from_i, to_i, j, raw_color),
                     j + 1, to_y, from_i, to_i, raw_color)

\* Canvas::thick_outline_rect
thick_outline_rect(cv, x, y, w, h, thickness, raw_color) ==
    IF w <= 0 \/ h <= 0 \/ thickness <= 0 THEN cv
    ELSE IF thickness = 1 THEN outline_rect(cv, x, y, w, h, raw_color)
    ELSE LET x1 == x
             x2 == x + w
             y1 == y
             y2 == y + h
             half_thickness == thickness \div 2
             Rows(c0) ==
                 IF x2 + half_thickness >= 0 /\ y1 - half_thickness < c0.clamped_height
                 THEN IF 0 > c0.clamped_width - 1 THEN Panic(c0)
                      ELSE LET from_x == Clamp(x1 - half_thickness, 0, c0.clamped_width - 1)
                               to_x == Min(x2 + half_thickness, c0.clamped_width)
                               top == IF 0 <= y1 + half_thickness
                                      THEN FillRows(c0, Max(y1 - half_thickness, 0),
                                                    Min(y1 + half_thickness, c0.clamped_height),
                                                    from_x, to_x, raw_color)
                                      ELSE c0
                           IN  IF 0 <= y2 + half_thickness
                                  /\ y2 - half_thickness < c0.clamped_height
                               THEN FillRows(top, Max(y2 - half_thickness, 0),
                                             Min(y2 + half_thickness, c0.clamped_height),
                                             from_x, to_x, raw_color)
                               ELSE top
                 ELSE c0
             Columns(c0) ==
                 IF c0.failed THEN c0
                 ELSE IF y2 + half_thickness >= 0 /\ x1 - half_thickness < c0.clamped_width
                 THEN IF 0 > c0.clamped_height - 1 THEN Panic(c0)
                      ELSE LET from_y == Clamp(y1, 0, c0.clamped_height - 1)
                               to_y == Min(y2, c0.clamped_height)
                               left == IF 0 <= x1 + half_thickness
                                       THEN BlockPixels(c0, from_y, to_y,
                                                Max(x1 - half_thickness, 0),
                                                Min(x1 + half_thickness, c0.clamped_width),
                                                raw_color)
                                       ELSE c0
                           IN  IF 0 <= x2 + half_thickness
                                  /\ x2 - half_thickness < c0.clamped_width
                               THEN BlockPixels(left, from_y, to_y,
                                        Max(x2 - half_thickness, 0),
                                        Min(x2 + half_thickness, c0.clamped_width),
                                        raw_color)
                               ELSE left
                 ELSE c0
         IN  Columns(Rows(cv))

\* the error-term update at the end of fill_circle's loop body: <<i, j, err>>
FillCircleStep(i, j, err) ==
    LET r == err
        j2 == IF r <= j THEN j + 1 ELSE j
        err2 == IF r <= j THEN err + (j2 * 2 + 1) ELSE err
        i2 == IF r > i \/ err2 > j2 THEN i + 1 ELSE i
        err3 == IF r > i \/ err2 > j2 THEN err2 + (i2 * 2 + 1) ELSE err2
    IN  <<i2, j2, err3>>

\* the loop of fill_circle: two spans per iteration, rows y - j and y + j
RECURSIVE FillCircleLoop(_, _, _, _, _, _, _)
FillCircleLoop(cv, x, y, i, j, err, raw_color) ==
    IF 0 > cv.clamped_width - 1 THEN Panic(cv)
    ELSE LET y1 == y - j
             y2 == y + j
             from_x == Clamp(x + i, 0, cv.clamped_width - 1)
             to_x == Clamp(x - i, from_x, cv.clamped_width)
             up == IF 0 <= y1 /\ y1 < cv.clamped_height
                   THEN FillSpan(cv, y1, from_x, to_x, raw_color)
                   ELSE cv
             down == IF 0 <= y2 /\ y2 < cv.clamped_height
                     THEN FillSpan(up, y2, from_x, to_x, raw_color)
                     ELSE up
             n == FillCircleStep(i, j, err)
         IN  IF down.failed \/ n[1] >= 0 THEN down
             ELSE FillCircleLoop(down, x, y, n[1], n[2], n[3], raw_color)

\* fill_circle that returns early only for a negative radius
fill_circle_zero(cv, x, y, r, raw_color) ==
    IF cv.failed \/ r < 0 THEN cv
    ELSE FillCircleLoop(cv, x, y, 0 - r, 0, 2 - 2 * r, raw_color)

\* Canvas::fill_circle
fill_circle(cv, x, y, r, raw_color) ==
    IF cv.failed \/ r < 1 THEN cv
    ELSE FillCircleLoop(cv, x, y, 0 - r, 0, 2 - 2 * r, raw_color)

\* the four guarded stores of the outline loops: (x1, y1), (x1, y2), (x2, y1), (x2, y2)
PlotFour(cv, x1, x2, y1, y2, raw_color) ==
    LET Pair(c0, xx) ==
            IF 0 <= xx /\ xx < c0.clamped_width
            THEN LET a == IF 0 <= y1 /\ y1 < c0.clamped_height
                          THEN set_pixel_unchecked_raw_i32(c0, xx, y1, raw_color)
                          ELSE c0
                 IN  IF 0 <= y2 /\ y2 < c0.clamped_height
                     THEN set_pixel_unchecked_raw_i32(a, xx, y2, raw_color)
                     ELSE a
            ELSE c0
    IN  Pair(Pair(cv, x1), x2)

\* the error-term update at the end of outline_circle's loop body: <<i, j, err>>
OutlineCircleStep(i, j, err) ==
    LET r == err
        j2 == IF r <= j THEN j + 1 ELSE j
        err2 == IF r <= j THEN err + (j2 * 2 + 1) ELSE err
        i2 == IF r > i \/ err2 > j2 THEN i + 1 ELSE i
        err3 == IF r > i \/ err2 > j2 THEN err2 + (i2 * 2 + 1) ELSE err2
    IN  <<i2, j2, err3>>

\* the loop of outline_circle: up to four points per iteration
RECURSIVE OutlineCircleLoop(_, _, _, _, _, _, _)
OutlineCircleLoop(cv, x, y, i, j, err, raw_color) ==
    LET drawn == PlotFour(cv, x - i, x + i, y - j, y + j, raw_color)
        n == OutlineCircleStep(i, j, err)
    IN  IF drawn.failed \/ n[1] >= 0 THEN drawn
        ELSE OutlineCircleLoop(drawn, x, y, n[1], n[2], n[3], raw_color)

\* Canvas::outline_circle
outline_circle(cv, x, y, r, raw_color) ==
    IF cv.failed \/ r < 1 THEN cv
    ELSE OutlineCircleLoop(cv, x, y, 0 - r, 0, 2 - 2 * r, raw_color)

\* the loop of thick_outline_circle: eight spans per iteration, then the two error terms
RECURSIVE ThickCircleLoop(_, _, _, _, _, _, _, _, _, _)
ThickCircleLoop(cv, x, y, ri, xo, xi, j, erro, erri, raw_color) ==
    IF cv.failed \/ ~(xo >= j) THEN cv
    ELSE LET d1 == hline(cv, y + j, x + xi, x + xo, raw_color)
             d2 == vline(d1, x + j, y + xi, y + xo, raw_color)
             d3 == hline(d2, y + j, x - xo, x - xi, raw_color)
             d4 == vline(d3, x - j, y + xi, y + xo, raw_color)
             d5 == hline(d4, y - j, x - xo, x - xi, raw_color)
             d6 == vline(d5, x - j, y - xo, y - xi, raw_color)
             d7 == hline(d6, y - j, x + xi, x + xo, raw_color)
             d8 == vline(d7, x + j, y - xo, y - xi, raw_color)
             j2 == j + 1
             xo2 == IF erro < 0 THEN xo ELSE xo - 1
             erro2 == IF erro < 0 THEN erro + (2 * j2 + 1)
                      ELSE erro + (2 * (j2 - xo2) + 1)
             xi2 == IF j2 > ri THEN j2 ELSE IF erri < 0 THEN xi ELSE xi - 1
             erri2 == IF j2 > ri THEN erri
                      ELSE IF erri < 0 THEN erri + (2 * j2 + 1)
                      ELSE erri + (2 * (j2 - xi2) + 1)
         IN  ThickCircleLoop(d8, x, y, ri, xo2, xi2, j2, erro2, erri2, raw_color)

\* Canvas::thick_outline_circle
thick_outline_circle(cv, x, y, r, thickness, raw_color) ==
    IF thickness = 1 THEN outline_circle(cv, x, y, r, raw_color)
    ELSE IF thickness <= 0 \/ r < 1 THEN cv
    ELSE LET half_thickness == thickness \div 2
             ro == r + half_thickness
             ri == ro - thickness + 1
         IN  ThickCircleLoop(cv, x, y, ri, ro, ri, 0, 1 - ro, 1 - ri, raw_color)

\* the trailing loop of fill_ellipse and outline_ellipse: while j < b { j += 1; two points }
RECURSIVE EllipseTail(_, _, _, _, _, _)
EllipseTail(cv, x, y, j, b, raw_color) ==
    IF cv.failed \/ ~(j < b) THEN cv
    ELSE LET j2 == j + 1
             y1 == y + j2
             y2 == y - j2
             drawn ==
                 IF 0 <= x /\ x < cv.clamped_width
                 THEN LET a == IF 0 <= y1 /\ y1 < cv.clamped_height
                               THEN set_pixel_unchecked_raw_i32(cv, x, y1, raw_color)
                               ELSE cv
                      IN  IF 0 <= y2 /\ y2 < cv.clamped_height
                          THEN set_pixel_unchecked_raw_i32(a, x, y2, raw_color)
                          ELSE a
                 ELSE cv
         IN  EllipseTail(drawn, x, y, j2, b, raw_color)

\* the error-term update at the end of fill_ellipse's loop body: <<i, j, err>>
FillEllipseStep(i, j, err, a2, b2) ==
    LET e2 == 2 * err
        i2 == IF e2 >= (i * 2 + 1) * b2 THEN i + 1 ELSE i
        err2 == IF e2 >= (i * 2 + 1) * b2 THEN err + (i2 * 2 + 1) * b2 ELSE err
        j2 == IF e2 <= (j * 2 + 1) * a2 THEN j + 1 ELSE j
        err3 == IF e2 <= (j * 2 + 1) * a2 THEN err2 + (j2 * 2 + 1) * a2 ELSE err2
    IN  <<i2, j2, err3>>

\* the main loop of fill_ellipse, followed by the trailing loop
RECURSIVE FillEllipseLoop(_, _, _, _, _, _, _, _, _)
FillEllipseLoop(cv, x, y, a, b, i, j, err, raw_color) ==
    IF 0 > cv.clamped_width - 1 THEN Panic(cv)
    ELSE LET y1 == y - j
             y2 == y + j
             from_x == Clamp(x + i, 0, cv.clamped_width - 1)
             to_x == Clamp(x - i, from_x, cv.clamped_width)
             up == IF 0 <= y1 /\ y1 < cv.clamped_height
                   THEN FillSpan(cv, y1, from_x, to_x, raw_color)
                   ELSE cv
             down == IF 0 <= y2 /\ y2 < cv.clamped_height
                     THEN FillSpan(up, y2, from_x, to_x, raw_color)
                     ELSE up
             n == FillEllipseStep(i, j, err, a * a, b * b)
         IN  IF down.failed THEN down
             ELSE IF n[1] > 0 THEN EllipseTail(down, x, y, n[2], b, raw_color)
             ELSE FillEllipseLoop(down, x, y, a, b, n[1], n[2], n[3], raw_color)

\* Canvas::fill_ellipse
fill_ellipse(cv, x, y, a, b, raw_color) ==
    IF cv.failed \/ a < 1 \/ b < 1 THEN cv
    ELSE FillEllipseLoop(cv, x, y, a, b, 0 - a, 0,
                         (0 - a) * (2 * (b * b) + (0 - a)) + b * b, raw_color)

\* the error-term update at the end of outline_ellipse's loop body: <<i, j, err>>
OutlineEllipseStep(i, j, err, a2, b2) ==
    LET e2 == 2 * err
        i2 == IF e2 >= (i * 2 + 1) * b2 THEN i + 1 ELSE i
        err2 == IF e2 >= (i * 2 + 1) * b2 THEN err + (i2 * 2 + 1) * b2 ELSE err
        j2 == IF e2 <= (j * 2 + 1) * a2 THEN j + 1 ELSE j
        err3 == IF e2 <= (j * 2 + 1) * a2 THEN err2 + (j2 * 2 + 1) * a2 ELSE err2
    IN  <<i2, j2, err3>>

\* the main loop of outline_ellipse, followed by the trailing loop
RECURSIVE OutlineEllipseLoop(_, _, _, _, _, _, _, _, _)
OutlineEllipseLoop(cv, x, y, a, b, i, j, err, raw_color) ==
    LET drawn == PlotFour(cv, x - i, x + i, y - j, y + j, raw_color)
        n == OutlineEllipseStep(i, j, err, a * a, b * b)
    IN  IF drawn.failed THEN drawn
        ELSE IF n[1] > 0 THEN EllipseTail(drawn, x, y, n[2], b, raw_color)
        ELSE OutlineEllipseLoop(drawn, x, y, a, b, n[1], n[2], n[3], raw_color)

\* Canvas::outline_ellipse
outline_ellipse(cv, x, y, a, b, raw_color) ==
    IF cv.failed \/ a < 1 \/ b < 1 THEN cv
    ELSE OutlineEllipseLoop(cv, x, y, a, b, 0 - a, 0,
                            (0 - a) * (2 * (b * b) + (0 - a)) + b * b, raw_color)

\* the loop of line: a guarded store at (x1, y1), then one error-term step
RECURSIVE LineLoop(_, _, _, _, _, _, _, _, _, _, _)
LineLoop(cv, x1, y1, x2, y2, dx, dy, sx, sy, err, raw_color) ==
    LET drawn == IF 0 <= x1 /\ x1 < cv.clamped_width /\ 0 <= y1 /\ y1 < cv.clamped_height
                 THEN set_pixel_unchecked_raw_i32(cv, x1, y1, raw_color)
                 ELSE cv
    IN  IF drawn.failed \/ (x1 = x2 /\ y1 = y2) THEN drawn
        ELSE LET e2 == 2 * err
                 err2 == IF e2 >= dy THEN err + dy ELSE err
                 nx == IF e2 >= dy THEN x1 + sx ELSE x1
                 err3 == IF e2 <= dx THEN err2 + dx ELSE err2
                 ny == IF e2 <= dx THEN y1 + sy ELSE y1
             IN  LineLoop(drawn, nx, ny, x2, y2, dx, dy, sx, sy, err3, raw_color)

\* a turn of the loop of line that never moves x and y together
LineStep_lazy(x1, y1, dx, dy, sx, sy, err) ==
    IF 2 * err >= dy THEN <<x1 + sx, y1, err + dy>> ELSE <<x1, y1 + sy, err + dx>>

\* a turn of the loop of line after its break: <<x1, y1, err>> for the next turn
LineStep(x1, y1, dx, dy, sx, sy, err) ==
    <<IF 2 * err >= dy THEN x1 + sx ELSE x1,
      IF 2 * err <= dx THEN y1 + sy ELSE y1,
      err + (IF 2 * err >= dy THEN dy ELSE 0) + (IF 2 * err <= dx THEN dx ELSE 0)>>

\* the points (x1, y1) of the turns of the loop of line, at most turns + 1 of them
RECURSIVE LineVisits(_, _, _, _, _, _, _, _, _, _)
LineVisits(x1, y1, x2, y2, dx, dy, sx, sy, err, turns) ==
    IF (x1 = x2 /\ y1 = y2) \/ turns = 0 THEN <<<<x1, y1>>>>
    ELSE LET next == LineStep(x1, y1, dx, dy, sx, sy, err)
         IN  <<<<x1, y1>>>> \o LineVisits(next[1], next[2], x2, y2, dx, dy, sx, sy,
                                         next[3], turns - 1)

\* the points line(x1, y1, x2, y2, _) visits in its first `turns` + 1 turns
LineVisited(x1, y1, x2, y2, turns) ==
    LineVisits(x1, y1, x2, y2, Abs(x2 - x1), 0 - Abs(y2 - y1),
               IF x1 < x2 THEN 1 ELSE 0 - 1, IF y1 < y2 THEN 1 ELSE 0 - 1,
               Abs(x2 - x1) - Abs(y2 - y1), turns)

\* Canvas::line
line(cv, x1, y1, x2, y2, raw_color) ==
    IF cv.failed THEN cv
    ELSE LET dx == Abs(x2 - x1)
             sx == IF x1 < x2 THEN 1 ELSE 0 - 1
             dy == 0 - Abs(y2 - y1)
             sy == IF y1 < y2 THEN 1 ELSE 0 - 1
         IN  LineLoop(cv, x1, y1, x2, y2, dx, dy, sx, sy, dx + dy, raw_color)

(* ------------------------------ flood fill ---------------------------- *)

\* a checked index: self.buffer[idx] panics when idx is out of bounds
InBuf(cv, idx) == idx \in DOMAIN cv.buffer

\* self.buffer[y * self.width + x] = raw_color
Store(cv, x, y, raw_color) ==
    IF cv.failed THEN cv
    ELSE IF InBuf(cv, y * cv.width + x)
    THEN [cv EXCEPT !.buffer[y * cv.width + x] = raw_color,
                    !.writes = @ \cup {<<x, y>>}]
    ELSE Panic(cv)

\* while y != 0 && buffer[(y - 1) * width + x] == seed_color { y -= 1 }: y, or -1 on a panic
RECURSIVE WalkUp(_, _, _, _)
WalkUp(cv, x, y, seed_color) ==
    IF y = 0 THEN y
    ELSE IF ~InBuf(cv, (y - 1) * cv.width + x) THEN 0 - 1
    ELSE IF cv.buffer[(y - 1) * cv.width + x] = seed_color
    THEN WalkUp(cv, x, y - 1, seed_color)
    ELSE y

\* while x != 0 && buffer[y * width + (x - 1)] == seed_color { x -= 1 }: x, or -1 on a panic
RECURSIVE WalkLeft(_, _, _, _)
WalkLeft(cv, x, y, seed_color) ==
    IF x = 0 THEN x
    ELSE IF ~InBuf(cv, y * cv.width + (x - 1)) THEN 0 - 1
    ELSE IF cv.buffer[y * cv.width + (x - 1)] = seed_color
    THEN WalkLeft(cv, x - 1, y, seed_color)
    ELSE x

\* the seed-find loop of flood_fill_start: <<x, y>>, or <<>> on a panic
RECURSIVE SeedFind(_, _, _, _)
SeedFind(cv, x, y, seed_color) ==
    LET ny == WalkUp(cv, x, y, seed_color)
    IN  IF ny < 0 THEN <<>>
        ELSE LET nx == WalkLeft(cv, x, ny, seed_color)
             IN  IF nx < 0 THEN <<>>
                 ELSE IF nx = x /\ ny = y THEN <<x, y>>
                 ELSE SeedFind(cv, nx, ny, seed_color)

RECURSIVE flood_fill_start(_, _, _, _, _)
RECURSIVE flood_fill_core(_, _, _, _, _)
RECURSIVE CoreSkip(_, _)
RECURSIVE CoreLeft(_, _, _)
RECURSIVE CoreRight(_, _, _)
RECURSIVE CoreShrink(_, _, _, _)
RECURSIVE CoreGrow(_, _, _, _)
RECURSIVE CoreLoop(_, _, _)

\* Canvas::flood_fill_start
flood_fill_start(cv, x, y, seed_color, raw_color) ==
    IF cv.failed THEN cv
    ELSE LET p == SeedFind(cv, x, y, seed_color)
         IN  IF p = <<>> THEN Panic(cv)
             ELSE flood_fill_core(cv, p[1], p[2], seed_color, raw_color)

\* flood_fill_core, first branch: skip the cells of the row above's run that are not
\* seed-coloured; `done` is the return taken when last_row_len reaches 0
CoreSkip(s, seed_color) ==
    LET l == s.last_row_len - 1
    IN  IF l = 0 THEN [s EXCEPT !.last_row_len = l, !.done = TRUE]
        ELSE LET nx == s.x + 1
                 t == [s EXCEPT !.last_row_len = l, !.x = nx]
             IN  IF ~InBuf(s.cv, s.y * s.cv.width + nx)
                 THEN [t EXCEPT !.cv = Panic(s.cv), !.done = TRUE]
                 ELSE IF s.cv.buffer[s.y * s.cv.width + nx] = seed_color THEN t
                 ELSE CoreSkip(t, seed_color)

\* flood_fill_core, second branch: extend the run to the left, filling, and start a
\* fill from every seed-coloured cell found above
CoreLeft(s, seed_color, raw_color) ==
    IF s.cv.failed \/ s.x = 0 THEN s
    ELSE IF ~InBuf(s.cv, s.y * s.cv.width + s.x - 1) THEN [s EXCEPT !.cv = Panic(s.cv)]
    ELSE IF s.cv.buffer[s.y * s.cv.width + s.x - 1] # seed_color THEN s
    ELSE LET nx == s.x - 1
             c1 == Store(s.cv, nx, s.y, raw_color)
             c2 == IF c1.failed \/ s.y = 0 THEN c1
                   ELSE IF ~InBuf(c1, (s.y - 1) * c1.width + nx) THEN Panic(c1)
                   ELSE IF c1.buffer[(s.y - 1) * c1.width + nx] = seed_color
                   THEN flood_fill_start(c1, nx, s.y - 1, seed_color, raw_color)
                   ELSE c1
         IN  CoreLeft([s EXCEPT !.cv = c2, !.x = nx, !.row_len = @ + 1,
                                !.last_row_len = @ + 1],
                      seed_color, raw_color)

\* while sx < width && buffer[y * width + sx] == seed_color { fill; row_len += 1; sx += 1 }
CoreRight(s, seed_color, raw_color) ==
    IF s.cv.failed \/ ~(s.sx < s.cv.width) THEN s
    ELSE IF ~InBuf(s.cv, s.y * s.cv.width + s.sx) THEN [s EXCEPT !.cv = Panic(s.cv)]
    ELSE IF s.cv.buffer[s.y * s.cv.width + s.sx] # seed_color THEN s
    ELSE CoreRight([s EXCEPT !.cv = Store(s.cv, s.sx, s.y, raw_color),
                             !.row_len = @ + 1, !.sx = @ + 1],
                   seed_color, raw_color)

\* the row is shorter than the one above: fill from the cells below the rest of that run
CoreShrink(s, end, seed_color, raw_color) ==
    LET nsx == s.sx + 1
        t == [s EXCEPT !.sx = nsx]
    IN  IF s.cv.failed \/ nsx >= end THEN t
        ELSE IF ~InBuf(s.cv, s.y * s.cv.width + nsx) THEN [t EXCEPT !.cv = Panic(s.cv)]
        ELSE IF s.cv.buffer[s.y * s.cv.width + nsx] = seed_color
        THEN CoreShrink([t EXCEPT !.cv = flood_fill_core(s.cv, nsx, s.y,
                                                         seed_color, raw_color)],
                        end, seed_color, raw_color)
        ELSE CoreShrink(t, end, seed_color, raw_color)

\* flood_fill_core never looking above the part of a row that outgrows the row above
CoreGrow_skipping(s, ux, seed_color, raw_color) == s

\* the row is longer than the one above: fill from the cells above the rest of this run
CoreGrow(s, ux, seed_color, raw_color) ==
    LET nux == ux + 1
    IN  IF s.cv.failed \/ nux >= s.sx THEN s
        ELSE IF ~InBuf(s.cv, (s.y - 1) * s.cv.width + nux) THEN [s EXCEPT !.cv = Panic(s.cv)]
        ELSE IF s.cv.buffer[(s.y - 1) * s.cv.width + nux] = seed_color
        THEN CoreGrow([s EXCEPT !.cv = flood_fill_start(s.cv, nux, s.y - 1,
                                                        seed_color, raw_color)],
                      nux, seed_color, raw_color)
        ELSE CoreGrow(s, nux, seed_color, raw_color)

\* one iteration of the row loop of flood_fill_core, and the rest of the loop
CoreLoop(s0, seed_color, raw_color) ==
    LET s1 == [s0 EXCEPT !.row_len = 0, !.sx = s0.x]
    IN  IF ~InBuf(s1.cv, s1.y * s1.cv.width + s1.x) /\ s1.last_row_len # 0
        THEN Panic(s1.cv)
        ELSE LET skip == s1.last_row_len # 0
                         /\ s1.cv.buffer[s1.y * s1.cv.width + s1.x] # seed_color
                 s2 == IF skip
                       THEN LET k == CoreSkip(s1, seed_color) IN [k EXCEPT !.sx = k.x]
                       ELSE CoreLeft(s1, seed_color, raw_color)
             IN  IF s2.done \/ s2.cv.failed THEN s2.cv
                 ELSE LET s3 == CoreRight(s2, seed_color, raw_color)
                          s4 == IF s3.cv.failed THEN s3
                                ELSE IF s3.row_len < s3.last_row_len
                                THEN CoreShrink(s3, s3.x + s3.last_row_len,
                                                seed_color, raw_color)
                                ELSE IF s3.row_len > s3.last_row_len /\ s3.y # 0
                                THEN CoreGrow(s3, s3.x + s3.last_row_len,
                                              seed_color, raw_color)
                                ELSE s3
                          s5 == [s4 EXCEPT !.last_row_len = s4.row_len, !.y = @ + 1]
                      IN  IF s5.cv.failed \/ s5.last_row_len = 0 \/ s5.y >= s5.cv.height
                          THEN s5.cv
                          ELSE CoreLoop(s5, seed_color, raw_color)

\* Canvas::flood_fill_core
flood_fill_core(cv, x, y, seed_color, raw_color) ==
    IF cv.failed THEN cv
    ELSE CoreLoop([cv |-> cv, x |-> x, y |-> y, sx |-> x, row_len |-> 0,
                   last_row_len |-> 0, done |-> FALSE],
                  seed_color, raw_color)

\* flood_fill that takes the column right of the canvas for a column of the canvas
flood_fill_inclusive(cv, x, y, raw_color) ==
    IF 0 <= x /\ x <= cv.clamped_width /\ 0 <= y /\ y < cv.clamped_height
    THEN IF ~InBuf(cv, y * cv.width + x) THEN Panic(cv)
         ELSE LET seed_color == cv.buffer[y * cv.width + x]
              IN  IF seed_color # raw_color
                  THEN flood_fill_start(cv, x, y, seed_color, raw_color)
                  ELSE cv
    ELSE cv

\* Canvas::flood_fill
flood_fill(cv, x, y, raw_color) ==
    IF 0 <= x /\ x < cv.clamped_width /\ 0 <= y /\ y < cv.clamped_height
    THEN IF ~InBuf(cv, y * cv.width + x) THEN Panic(cv)
         ELSE LET seed_color == cv.buffer[y * cv.width + x]
              IN  IF seed_color # raw_color
                  THEN flood_fill_start(cv, x, y, seed_color, raw_color)
                  ELSE cv
    ELSE cv

(* ------------------------------- f64 ---------------------------------- *)

\* An f64 is held exactly as [neg, int, hi, lo], standing for
\* +-(int + (hi * 2^29 + lo) / 2^58).  Every value fill_triangle computes from
\* coordinates of magnitude below 64 and row counts up to 32 is such a multiple of
\* 2^-58; each operation computes the exact result and rounds it to 53 significant
\* bits, ties to even, as IEEE 754 binary64 does.
Limb == 2 ^ 29

RECURSIVE BitLen(_)
BitLen(n) == IF n = 0 THEN 0 ELSE 1 + BitLen(n \div 2)

\* the exact magnitude <<int, hi, lo>> (plus a sticky rest) rounded to 53 significant bits
F64Round(int, hi, lo, sticky) ==
    LET p == IF int >= 1 THEN 5 + BitLen(int)
             ELSE IF hi >= 2 ^ 24 THEN BitLen(hi) - 24
             ELSE 0
        r == lo % (2 ^ p)
        half == IF p >= 1 THEN 2 ^ (p - 1) ELSE 0
        up == p >= 1 /\ (r > half \/ (r = half /\ (sticky \/ (lo \div (2 ^ p)) % 2 = 1)))
        lo1 == lo - r + (IF up THEN 2 ^ p ELSE 0)
        hi1 == IF lo1 >= Limb THEN hi + 1 ELSE hi
    IN  <<IF hi1 >= Limb THEN int + 1 ELSE int,
          IF hi1 >= Limb THEN hi1 - Limb ELSE hi1,
          IF lo1 >= Limb THEN lo1 - Limb ELSE lo1>>

\* the f64 of sign neg and magnitude m; zero has no sign that the code can observe
F64Of(neg, m) ==
    [neg |-> neg /\ m # <<0, 0, 0>>, int |-> m[1], hi |-> m[2], lo |-> m[3]]

\* f64::from(n) of an i32
F64From(n) == F64Of(n < 0, <<Abs(n), 0, 0>>)

\* the next 29 binary digits of r / d after the point, r < d <= 2^15, by long
\* division 15 and then 14 digits at a time: <<digits, rest>>
FracBits(r, d) ==
    LET r1 == r * 2 ^ 15
        r2 == (r1 % d) * 2 ^ 14
    IN  <<(r1 \div d) * 2 ^ 14 + (r2 \div d), r2 % d>>

\* f64::from(n) / f64::from(d), d >= 1
F64Div(n, d) ==
    LET h == FracBits(Abs(n) % d, d)
        l == FracBits(h[2], d)
    IN  F64Of(n < 0, F64Round(Abs(n) \div d, h[1], l[1], l[2] # 0))

\* the magnitude of a is at least that of b
F64MagGeq(a, b) ==
    \/ a.int > b.int
    \/ a.int = b.int /\ a.hi > b.hi
    \/ a.int = b.int /\ a.hi = b.hi /\ a.lo >= b.lo

\* a + b
F64Add(a, b) ==
    IF a.neg = b.neg
    THEN LET lo == a.lo + b.lo
             c1 == IF lo >= Limb THEN 1 ELSE 0
             hi == a.hi + b.hi + c1
             c2 == IF hi >= Limb THEN 1 ELSE 0
         IN  F64Of(a.neg, F64Round(a.int + b.int + c2, hi - c2 * Limb,
                                   lo - c1 * Limb, FALSE))
    ELSE LET big == IF F64MagGeq(a, b) THEN a ELSE b
             small == IF F64MagGeq(a, b) THEN b ELSE a
             lo == big.lo - small.lo
             c1 == IF lo < 0 THEN 1 ELSE 0
             hi == big.hi - small.hi - c1
             c2 == IF hi < 0 THEN 1 ELSE 0
         IN  F64Of(big.neg, F64Round(big.int - small.int - c2, hi + c2 * Limb,
                                     lo + c1 * Limb, FALSE))

\* a < f64::from(n)
F64Lt(a, n) ==
    IF a.neg
    THEN n > 0 \/ a.int > 0 - n \/ (a.int = 0 - n /\ (a.hi > 0 \/ a.lo > 0))
    ELSE a.int < n

\* a.max(0.0) as usize, and a as usize: the cast truncates and saturates at 0
F64AsUsize(a) == IF a.neg THEN 0 ELSE a.int

(* ---------------------------- thick ellipse --------------------------- *)

\* i32 arithmetic: a value is <<v>>, and <<>> once an operation has left the
\* range of i32 (a panic where overflow is checked; a wrapped value otherwise)
I32Min == 0 - I32Max - 1

I32(v) == <<v>>

AddFits(a, b) == IF b >= 0 THEN a <= I32Max - b ELSE a >= I32Min - b

MulFits(a, b) ==
    \/ a = 0
    \/ b = 0
    \/ Abs(a) <= I32Max \div Abs(b)
    \/ /\ (a < 0) # (b < 0)
       /\ Abs(a) = (I32Max \div Abs(b)) + 1
       /\ I32Max % Abs(b) = Abs(b) - 1

Add(p, q) ==
    IF p = <<>> \/ q = <<>> THEN <<>>
    ELSE IF AddFits(p[1], q[1]) THEN <<p[1] + q[1]>> ELSE <<>>

Sub(p, q) ==
    IF p = <<>> \/ q = <<>> THEN <<>>
    ELSE IF q[1] # I32Min /\ AddFits(p[1], 0 - q[1]) THEN <<p[1] - q[1]>>
    ELSE IF q[1] = I32Min /\ p[1] < 0 THEN <<(p[1] + I32Max) + 1>>
    ELSE <<>>

Mul(p, q) ==
    IF p = <<>> \/ q = <<>> THEN <<>>
    ELSE IF MulFits(p[1], q[1]) THEN <<p[1] * q[1]>> ELSE <<>>

\* i32 division truncates toward zero
Quot(p, d) ==
    IF p = <<>> THEN <<>>
    ELSE IF p[1] >= 0 THEN <<p[1] \div d>> ELSE <<0 - ((0 - p[1]) \div d)>>

\* some variable of the drawing loop holds the result of an overflow
Overflowed(e) == \E f \in DOMAIN e : e[f] = <<>>

\* macro outer_err_yx
outer_err_yx(outer_a, outer_b) ==
    Add(Sub(Mul(outer_a, outer_a), Mul(Mul(outer_b, outer_b), outer_a)),
        Quot(Mul(outer_b, outer_b), 4))

\* macro outer_err_xy
outer_err_xy(outer_a, outer_b, px, py) ==
    Sub(Add(Mul(Mul(outer_a, outer_a), Add(Mul(py, py), py)),
            Mul(Mul(Mul(outer_b, outer_b), Sub(px, I32(1))), Sub(px, I32(1)))),
        Mul(Mul(Mul(outer_b, outer_b), outer_a), outer_a))

\* macro inner_err_yx
inner_err_yx(inner_a, inner_b) ==
    Add(Sub(Mul(inner_a, inner_a), Mul(Mul(inner_b, inner_b), inner_a)),
        Quot(Mul(inner_b, inner_b), 4))

\* macro inner_err_xy
inner_err_xy(inner_a, inner_b, inner_x, py) ==
    Sub(Add(Mul(Mul(inner_a, inner_a), Add(Mul(py, py), py)),
            Mul(Mul(Mul(inner_b, inner_b), Sub(inner_x, I32(1))), Sub(inner_x, I32(1)))),
        Mul(Mul(Mul(inner_b, inner_b), inner_a), inner_a))

\* macro outer_step_yx
outer_step_yx(e, k) ==
    IF Overflowed(e) THEN e
    ELSE LET py == Add(e.py, I32(1))
             outer_dy == Add(e.outer_dy, Mul(Mul(I32(2), k.outer_a), k.outer_a))
         IN  IF e.outer_err[1] < 0
             THEN [e EXCEPT !.py = py, !.outer_dy = outer_dy,
                            !.outer_err = Add(@, Add(outer_dy, Mul(k.outer_a, k.outer_a)))]
             ELSE LET outer_dx == Sub(e.outer_dx, Mul(Mul(I32(2), k.outer_b), k.outer_b))
                  IN  [e EXCEPT !.py = py, !.px = Sub(@, I32(1)),
                                !.outer_dy = outer_dy, !.outer_dx = outer_dx,
                                !.outer_err = Add(@, Add(Sub(outer_dy, outer_dx),
                                                         Mul(k.outer_a, k.outer_a)))]

\* macro inner_step_yx
inner_step_yx(e, k) ==
    IF Overflowed(e) THEN e
    ELSE LET inner_dy == Add(e.inner_dy, Mul(Mul(I32(2), k.inner_a), k.inner_a))
         IN  IF e.inner_err[1] < 0
             THEN [e EXCEPT !.inner_dy = inner_dy,
                            !.inner_err = Add(@, Add(inner_dy, Mul(k.inner_a, k.inner_a)))]
             ELSE LET inner_dx == Sub(e.inner_dx, Mul(Mul(I32(2), k.inner_b), k.inner_b))
                  IN  [e EXCEPT !.inner_x = Sub(@, I32(1)),
                                !.inner_dy = inner_dy, !.inner_dx = inner_dx,
                                !.inner_err = Add(@, Add(Sub(inner_dy, inner_dx),
                                                         Mul(k.inner_a, k.inner_a)))]

\* one turn of the `loop` of macro outer_step_xy; brk is set where the code breaks
OuterXyTurn(d, k) ==
    LET e == d.e
        px == Sub(e.px, I32(1))
        outer_dx == Sub(e.outer_dx, Mul(Mul(I32(2), k.outer_b), k.outer_b))
    IN  IF px = <<>> \/ px[1] < 0 THEN [d EXCEPT !.e.px = px, !.brk = TRUE]
        ELSE IF e.outer_err[1] > 0
        THEN [d EXCEPT !.e = [e EXCEPT !.px = px, !.outer_dx = outer_dx,
                                       !.outer_err = Add(@, Sub(Mul(k.outer_b, k.outer_b),
                                                                outer_dx))]]
        ELSE LET outer_dy == Add(e.outer_dy, Mul(Mul(I32(2), k.outer_a), k.outer_a))
             IN  [d EXCEPT !.brk = TRUE,
                           !.e = [e EXCEPT !.px = px, !.py = Add(@, I32(1)),
                                           !.outer_dy = outer_dy, !.outer_dx = outer_dx,
                                           !.outer_err = Add(@, Add(Sub(outer_dy, outer_dx),
                                                                    Mul(k.outer_b, k.outer_b)))]]

\* one turn of the `loop` of macro inner_step_xy
InnerXyTurn(d, k) ==
    LET e == d.e
        inner_x == Sub(e.inner_x, I32(1))
        inner_dx == Sub(e.inner_dx, Mul(Mul(I32(2), k.inner_b), k.inner_b))
    IN  IF inner_x = <<>> \/ inner_x[1] < 0 THEN [d EXCEPT !.e.inner_x = inner_x, !.brk = TRUE]
        ELSE IF e.inner_err[1] > 0
        THEN [d EXCEPT !.e = [e EXCEPT !.inner_x = inner_x, !.inner_dx = inner_dx,
                                       !.inner_err = Add(@, Sub(Mul(k.inner_b, k.inner_b),
                                                                inner_dx))]]
        ELSE LET inner_dy == Add(e.inner_dy, Mul(Mul(I32(2), k.inner_a), k.inner_a))
             IN  [d EXCEPT !.brk = TRUE,
                           !.e = [e EXCEPT !.inner_x = inner_x,
                                           !.inner_dy = inner_dy, !.inner_dx = inner_dx,
                                           !.inner_err = Add(@, Add(Sub(inner_dy, inner_dx),
                                                                    Mul(k.inner_b, k.inner_b)))]]

\* the loops of the step macros run on the variables alone: no canvas is involved;
\* after an overflow (a panic) no turn is taken
Stepping(e) == [cv |-> [failed |-> FALSE], e |-> e, brk |-> Overflowed(e)]

\* an overflow (a panic) ends the loop of a step macro too
Broken(turned) == [turned EXCEPT !.brk = @ \/ Overflowed(turned.e)]

\* one turn of the `loop` of a step macro
XyTurn(outer, d, k) == Broken(IF outer THEN OuterXyTurn(d, k) ELSE InnerXyTurn(d, k))

\* a loop `loop { .. }` of a step macro goes on until it breaks: up to 2^n turns, as
\* two halves of 2^(n-1) turns
RECURSIVE XyLoop(_, _, _, _)
XyLoop(outer, d, k, n) ==
    CASE d.brk -> d
      [] n = 0 -> XyTurn(outer, d, k)
      [] OTHER -> LET half == XyLoop(outer, d, k, n - 1)
                  IN  IF half.brk THEN half ELSE XyLoop(outer, half, k, n - 1)

\* the whole loop: 1, 2, 4, .. turns at a time, up to 2^LoopDepth at a time
RECURSIVE XyRun(_, _, _, _)
XyRun(outer, d, k, n) ==
    IF d.brk THEN d
    ELSE IF n > LoopDepth THEN d
    ELSE XyRun(outer, XyLoop(outer, d, k, n), k, n + 1)

\* macro outer_step_xy
outer_step_xy(e, k) == XyRun(TRUE, Stepping(e), k, 0).e

\* macro inner_step_xy
inner_step_xy(e, k) == XyRun(FALSE, Stepping(e), k, 0).e

\* the four hlines of one step of the ring, between the outer and the inner edge
RingSpans(cv, x, y, px, py, inner_x, raw_color) ==
    hline(hline(hline(hline(cv, y + py, x - px, x - inner_x, raw_color),
                      y + py, x + px, x + inner_x, raw_color),
                y - py, x - px, x - inner_x, raw_color),
          y - py, x + px, x + inner_x, raw_color)

\* the two hlines of one step from edge to edge: x - px to x + px + more
EdgeSpans(cv, x, y, px, py, more, raw_color) ==
    hline(hline(cv, y + py, x - px, x + px + more, raw_color),
          y - py, x - px, x + px + more, raw_color)

\* the condition of a `while` loop of thick_outline_ellipse; an overflow (a panic)
\* or a panic of hline ends every loop
EllipseWhile(phase, d) ==
    /\ ~d.cv.failed
    /\ ~Overflowed(d.e)
    /\ CASE phase = 1 -> d.e.outer_dy[1] < d.e.outer_dx[1] /\ d.e.inner_dy[1] < d.e.inner_dx[1]
         [] phase = 2 -> d.e.outer_dy[1] < d.e.outer_dx[1] /\ d.e.inner_x[1] >= 0
         [] phase = 3 -> d.e.outer_dy[1] < d.e.outer_dx[1]
         [] phase = 4 -> d.e.inner_dy[1] < d.e.inner_dx[1]
         [] phase = 5 -> d.e.inner_x[1] >= 0
         [] OTHER -> d.e.px[1] >= 0

\* the canvas after an overflow: the call has panicked
Overflow(d) == [d EXCEPT !.cv = Panic(@)]

\* the variables after a turn: the canvas with the hlines of the turn and the stepped
\* error terms; an overflow in the steps is a panic
Stepped(d, cv, stepped) ==
    IF Overflowed(stepped) THEN Overflow([d EXCEPT !.cv = cv, !.e = stepped])
    ELSE [d EXCEPT !.cv = cv, !.e = stepped]

\* the ring of a turn that draws before it steps
Ring(d, x, y, raw_color) ==
    RingSpans(d.cv, x, y, d.e.px[1], d.e.py[1], d.e.inner_x[1], raw_color)

\* the ring of a turn that steps before it draws: up to x.min(inner_x)
ClippedRing(d, stepped, x, y, raw_color) ==
    RingSpans(d.cv, x, y, d.e.px[1], d.e.py[1], Min(x, stepped.inner_x[1]), raw_color)

\* a turn of the loop of the else branch: both edges are stepped, then the ring drawn
ElseTurn(d, stepped, x, y, raw_color) ==
    IF Overflowed(stepped) THEN Overflow([d EXCEPT !.e = stepped])
    ELSE Stepped(d, ClippedRing(d, stepped, x, y, raw_color), stepped)

\* a turn of the loop of the 3rd phase: the outer edge is stepped, the ring drawn, the
\* inner edge stepped
ThirdTurn(d, stepped, k, x, y, raw_color) ==
    IF Overflowed(stepped) THEN Overflow([d EXCEPT !.e = stepped])
    ELSE Stepped(d, ClippedRing(d, stepped, x, y, raw_color), inner_step_xy(stepped, k))

\* the body of a `while` loop of thick_outline_ellipse: 1 the 1st phase; 2, 3 the two
\* loops of the 2nd phase and 4 the loop of its else branch; 5 the 3rd phase; 6 the 4th
EllipseBody(phase, d, k, x, y, raw_color) ==
    CASE phase = 1 -> Stepped(d, Ring(d, x, y, raw_color),
                              inner_step_yx(outer_step_yx(d.e, k), k))
      [] phase = 2 -> Stepped(d, Ring(d, x, y, raw_color),
                              inner_step_xy(outer_step_yx(d.e, k), k))
      [] phase = 3 -> Stepped(d, EdgeSpans(d.cv, x, y, d.e.px[1], d.e.py[1], 0, raw_color),
                              outer_step_yx(d.e, k))
      [] phase = 4 -> ElseTurn(d, inner_step_yx(outer_step_xy(d.e, k), k), x, y, raw_color)
      [] phase = 5 -> ThirdTurn(d, outer_step_xy(d.e, k), k, x, y, raw_color)
      [] OTHER -> Stepped(d, EdgeSpans(d.cv, x, y, d.e.px[1], d.e.py[1], 1, raw_color),
                          outer_step_xy(d.e, k))

\* brk is set when the condition of the `while` loop fails
Ended(phase, d) == [d EXCEPT !.brk = ~EllipseWhile(phase, d)]

\* one turn of a `while` loop of thick_outline_ellipse
EllipseTurn(phase, d, k, x, y, raw_color) ==
    Ended(phase, EllipseBody(phase, d, k, x, y, raw_color))

\* a `while` loop of thick_outline_ellipse, run until its condition fails: up to 2^n
\* turns, as two halves of 2^(n-1) turns
RECURSIVE EllipseLoop(_, _, _, _, _, _, _)
EllipseLoop(phase, d, k, x, y, raw_color, n) ==
    CASE d.brk -> d
      [] n = 0 -> EllipseTurn(phase, d, k, x, y, raw_color)
      [] OTHER -> LET half == EllipseLoop(phase, d, k, x, y, raw_color, n - 1)
                  IN  IF half.brk THEN half
                      ELSE EllipseLoop(phase, half, k, x, y, raw_color, n - 1)

\* 1, 2, 4, .. turns of the loop at a time, up to 2^LoopDepth at a time
RECURSIVE EllipseRun(_, _, _, _, _, _, _)
EllipseRun(phase, d, k, x, y, raw_color, n) ==
    IF d.brk THEN d
    ELSE IF n > LoopDepth THEN d
    ELSE EllipseRun(phase, EllipseLoop(phase, d, k, x, y, raw_color, n),
                    k, x, y, raw_color, n + 1)

\* the whole `while` loop of a phase
While(phase, d, k, x, y, raw_color) ==
    EllipseRun(phase, Ended(phase, d), k, x, y, raw_color, 0)

\* an assignment of an error term between the loops; an overflow in it is a panic
Assigned(d, e) ==
    IF d.cv.failed THEN d
    ELSE IF Overflowed(e) THEN Overflow([d EXCEPT !.e = e])
    ELSE [d EXCEPT !.e = e]

\* the 1st phase, from the set-up e of the variables
EllipseFirst(cv, e, k, x, y, raw_color) ==
    While(1, Assigned([cv |-> cv, e |-> e, brk |-> FALSE], e), k, x, y, raw_color)

\* the first loop of the if branch of the 2nd phase
EllipseSecondIf(first, k, x, y, raw_color) ==
    While(2, Assigned(first,
                [first.e EXCEPT !.inner_err =
                    inner_err_xy(k.inner_a, k.inner_b, first.e.inner_x, first.e.py)]),
          k, x, y, raw_color)

\* the 2nd phase: its if branch with two loops, or its else branch
EllipseSecond(first, k, x, y, raw_color) ==
    IF first.cv.failed THEN first
    ELSE IF first.e.outer_dy[1] < first.e.outer_dx[1]
    THEN While(3, EllipseSecondIf(first, k, x, y, raw_color), k, x, y, raw_color)
    ELSE While(4, Assigned(first,
                    [first.e EXCEPT !.outer_err =
                        outer_err_xy(k.outer_a, k.outer_b, first.e.px, first.e.py)]),
               k, x, y, raw_color)

\* the 3rd phase
EllipseThird(second, k, x, y, raw_color) ==
    IF second.cv.failed THEN second
    ELSE While(5, Assigned(second,
                    [second.e EXCEPT
                        !.outer_err = outer_err_xy(k.outer_a, k.outer_b,
                                                   second.e.px, second.e.py),
                        !.inner_err = inner_err_xy(k.inner_a, k.inner_b,
                                                   second.e.inner_x, second.e.py)]),
               k, x, y, raw_color)

\* the 4th phase
EllipseFourth(third, k, x, y, raw_color) ==
    IF third.cv.failed THEN third ELSE While(6, third, k, x, y, raw_color)

\* the four phases, from the set-up e of the variables
EllipsePhases(cv, e, k, x, y, raw_color) ==
    EllipseFourth(EllipseThird(EllipseSecond(EllipseFirst(cv, e, k, x, y, raw_color),
                                             k, x, y, raw_color),
                               k, x, y, raw_color),
                  k, x, y, raw_color)

\* the semi-axes of the inner and the outer edge
EllipseAxes(a, b, half_thickness) ==
    [inner_a |-> Sub(I32(a), half_thickness), inner_b |-> Sub(I32(b), half_thickness),
     outer_a |-> Add(I32(a), half_thickness), outer_b |-> Add(I32(b), half_thickness)]

\* the set-up of the variables: let (mut px, mut py) = (outer_a, 0); ..
EllipseSetUp(k, py) ==
    [px |-> k.outer_a, py |-> py,
     outer_dx |-> Mul(Mul(Mul(I32(2), k.outer_b), k.outer_b), k.outer_a),
     outer_dy |-> Mul(Mul(Mul(I32(2), k.outer_a), k.outer_a), py),
     inner_x |-> k.inner_a,
     inner_dx |-> Mul(Mul(Mul(I32(2), k.inner_b), k.inner_b), k.inner_a),
     inner_dy |-> Mul(Mul(Mul(I32(2), k.inner_a), k.inner_a), py),
     outer_err |-> outer_err_yx(k.outer_a, k.outer_b),
     inner_err |-> inner_err_yx(k.inner_a, k.inner_b)]

\* the body of thick_outline_ellipse after its early returns
EllipseDrawn(cv, k, x, y, raw_color) ==
    EllipsePhases(cv, EllipseSetUp(k, I32(0)), k, x, y, raw_color).cv

\* Canvas::thick_outline_ellipse
thick_outline_ellipse(cv, x, y, a, b, thickness, raw_color) ==
    IF cv.failed THEN cv
    ELSE IF thickness = 1 THEN outline_ellipse(cv, x, y, a, b, raw_color)
    ELSE IF a < 1 \/ b < 1 \/ thickness <= 0 THEN cv
    ELSE EllipseDrawn(cv, EllipseAxes(a, b, I32(thickness \div 2)), x, y, raw_color)

(* ------------------------------ triangles ----------------------------- *)

\* let range = offset + from_x..=offset + to_x;
\* if !range.is_empty() { self.buffer[range].fill(raw_color) }
FillSpanInclusive(cv, row, from_x, to_x, raw_color) ==
    IF cv.failed THEN cv
    ELSE LET lo == row * cv.width + from_x
             hi == row * cv.width + to_x
             targets == {<<x, row>> : x \in from_x..to_x}
         IN  IF lo > hi THEN cv
             ELSE IF hi >= BufLen(cv.buffer)
             THEN Panic([cv EXCEPT !.writes = @ \cup targets])
             ELSE [cv EXCEPT
                     !.buffer = Filled(@, lo, hi + 1, raw_color),
                     !.writes = @ \cup targets]

\* one of the two blocks of a row of fill_triangle: from `from` to `to`, where `to` is
\* replaced by clamped_width - 1 when it is not below clamped_width; on a canvas of
\* width 0 that replacement is (-1) as usize, resp. 0usize - 1, and the slice panics
TriangleSpan(cv, row, from, to, raw_color) ==
    IF cv.failed THEN cv
    ELSE IF F64Lt(to, cv.clamped_width)
    THEN FillSpanInclusive(cv, row, F64AsUsize(from), F64AsUsize(to), raw_color)
    ELSE IF cv.clamped_width = 0 THEN Panic(cv)
    ELSE FillSpanInclusive(cv, row, F64AsUsize(from), cv.clamped_width - 1, raw_color)

\* for y in y1..=y3.min(clamped_height - 1) { two spans if y >= 0; xf += ..; xt += .. }
RECURSIVE TriangleRows(_, _, _, _, _, _, _, _, _, _)
TriangleRows(cv, y, last_y, y2, xf, xt, dx_far, dx_upper, dx_low, raw_color) ==
    IF cv.failed \/ y > last_y THEN cv
    ELSE LET drawn == IF y >= 0
                      THEN TriangleSpan(TriangleSpan(cv, y, xf, xt, raw_color),
                                        y, xt, xf, raw_color)
                      ELSE cv
         IN  TriangleRows(drawn, y + 1, last_y, y2, F64Add(xf, dx_far),
                          F64Add(xt, IF y < y2 THEN dx_upper ELSE dx_low),
                          dx_far, dx_upper, dx_low, raw_color)

\* fill_triangle without its third swap
SortVertically_twice(x1, y1, x2, y2, x3, y3) ==
    LET a == IF y2 > y3 THEN <<x1, y1, x3, y3, x2, y2>> ELSE <<x1, y1, x2, y2, x3, y3>>
    IN  IF a[2] > a[4] THEN <<a[3], a[4], a[1], a[2], a[5], a[6]>> ELSE a

\* the three conditional swaps of fill_triangle: <<x1, y1, x2, y2, x3, y3>> by y
SortVertically(x1, y1, x2, y2, x3, y3) ==
    LET a == IF y2 > y3 THEN <<x1, y1, x3, y3, x2, y2>> ELSE <<x1, y1, x2, y2, x3, y3>>
        b == IF a[2] > a[4] THEN <<a[3], a[4], a[1], a[2], a[5], a[6]>> ELSE a
    IN  IF b[4] > b[6] THEN <<b[1], b[2], b[5], b[6], b[3], b[4]>> ELSE b

\* Canvas::fill_triangle
fill_triangle(cv, x1, y1, x2, y2, x3, y3, raw_color) ==
    IF cv.failed THEN cv
    ELSE LET p == SortVertically(x1, y1, x2, y2, x3, y3)
             dx_far == F64Div(p[5] - p[1], p[6] - p[2] + 1)
             dx_upper == F64Div(p[3] - p[1], p[4] - p[2] + 1)
             dx_low == F64Div(p[5] - p[3], p[6] - p[4] + 1)
             xf == F64From(p[1])
         IN  TriangleRows(cv, p[2], Min(p[6], cv.clamped_height - 1), p[4],
                          xf, F64Add(xf, dx_upper), dx_far, dx_upper, dx_low, raw_color)

\* Canvas::outline_triangle
outline_triangle(cv, x1, y1, x2, y2, x3, y3, raw_color) ==
    line(line(line(cv, x1, y1, x2, y2, raw_color), x1, y1, x3, y3, raw_color),
         x2, y2, x3, y3, raw_color)

(* ----------------------------- thick lines ---------------------------- *)

\* Canvas::thick_hline
thick_hline(cv, y, x1, x2, thickness, raw_color) ==
    LET t == Max(thickness, 0)
        a == IF x1 > x2 THEN x2 ELSE x1
        b == IF x1 > x2 THEN x1 ELSE x2
    IN  fill_rect(cv, a, y + t \div 2, b - a, t, raw_color)

\* Canvas::thick_vline
thick_vline(cv, x, y1, y2, thickness, raw_color) ==
    LET t == Max(thickness, 0)
        a == IF y1 > y2 THEN y2 ELSE y1
        b == IF y1 > y2 THEN y1 ELSE y2
    IN  fill_rect(cv, x - t \div 2, a, t, b - a, raw_color)

\* Canvas::line_maybe_axis_aligned
line_maybe_axis_aligned(cv, x1, y1, x2, y2, raw_color) ==
    IF x1 = x2 THEN vline(cv, x1, y1, y2, raw_color)
    ELSE IF y1 = y2 THEN hline(cv, y1, x1, x2, raw_color)
    ELSE line(cv, x1, y1, x2, y2, raw_color)

\* ((d / length) * half_thickness) as i32 with length = sqrt(n), half_thickness =
\* thickness * 0.5, thickness >= 0: 0 when length is 0 (NaN as i32), otherwise the
\* quotient d * thickness / (2 * sqrt(n)) truncated towards zero.  The f64 result is
\* the exact one: the quotient is an integer only when n is a square, and then only
\* for d = +-length within |d| <= 24 and thickness <= 12, where f64 is exact.
PerpOffset(d, n, thickness) ==
    IF n = 0 THEN 0
    ELSE LET k == CHOOSE k \in 0..thickness :
                      /\ 4 * k * k * n <= d * d * thickness * thickness
                      /\ 4 * (k + 1) * (k + 1) * n > d * d * thickness * thickness
         IN  IF d < 0 THEN 0 - k ELSE k

\* thick_line that draws thickness 1 as two triangles, like every other thickness
thick_line_undelegated(cv, x1, y1, x2, y2, thickness, raw_color) ==
    IF cv.failed \/ thickness < 0 THEN cv
    ELSE LET dx == x2 - x1
             dy == y2 - y1
             n == dx * dx + dy * dy
             px == PerpOffset(0 - dy, n, thickness)
             py == PerpOffset(dx, n, thickness)
             v1x == x1 + px
             v1y == y1 + py
             v2x == x1 - px
             v2y == y1 - py
             v3x == x2 + px
             v3y == y2 + py
             v4x == x2 - px
             v4y == y2 - py
         IN  fill_triangle(fill_triangle(cv, v1x, v1y, v2x, v2y, v3x, v3y, raw_color),
                           v2x, v2y, v4x, v4y, v3x, v3y, raw_color)

\* Canvas::thick_line
thick_line(cv, x1, y1, x2, y2, thickness, raw_color) ==
    IF cv.failed \/ thickness < 0 THEN cv
    ELSE IF thickness = 1 THEN line(cv, x1, y1, x2, y2, raw_color)
    ELSE LET dx == x2 - x1
             dy == y2 - y1
             n == dx * dx + dy * dy
             px == PerpOffset(0 - dy, n, thickness)
             py == PerpOffset(dx, n, thickness)
             v1x == x1 + px
             v1y == y1 + py
             v2x == x1 - px
             v2y == y1 - py
             v3x == x2 + px
             v3y == y2 + py
             v4x == x2 - px
             v4y == y2 - py
         IN  fill_triangle(fill_triangle(cv, v1x, v1y, v2x, v2y, v3x, v3y, raw_color),
                           v2x, v2y, v4x, v4y, v3x, v3y, raw_color)

\* Canvas::thick_line_maybe_axis_aligned
thick_line_maybe_axis_aligned(cv, x1, y1, x2, y2, thickness, raw_color) ==
    IF x1 = x2 THEN thick_vline(cv, x1, y1, y2, thickness, raw_color)
    ELSE IF y1 = y2 THEN thick_hline(cv, y1, x1, x2, thickness, raw_color)
    ELSE thick_line(cv, x1, y1, x2, y2, thickness, raw_color)

\* Canvas::thick_outline_triangle
thick_outline_triangle(cv, x1, y1, x2, y2, x3, y3, thickness, raw_color) ==
    IF cv.failed \/ thickness < 0 THEN cv
    ELSE IF thickness = 1 THEN outline_triangle(cv, x1, y1, x2, y2, x3, y3, raw_color)
    ELSE LET half_thickness == thickness \div 2
         IN  fill_circle(
                fill_circle(
                    fill_circle(
                        thick_line(
                            thick_line(
                                thick_line(cv, x1, y1, x2, y2, thickness, raw_color),
                                x1, y1, x3, y3, thickness, raw_color),
                            x2, y2, x3, y3, thickness, raw_color),
                        x1, y1, half_thickness, raw_color),
                    x2, y2, half_thickness, raw_color),
                x3, y3, half_thickness, raw_color)

(* ------------------------------ actions ------------------------------- *)

\* a caller's storage of any length up to MaxW*MaxH and any contents
Init ==
    /\ status = "uninit"
    /\ buffer \in UNION {Slices(n) : n \in 0..(MaxW * MaxH)}
    /\ width = 0
    /\ height = 0
    /\ clamped_width = 0
    /\ clamped_height = 0
    /\ before = buffer
    /\ last = [op |-> "none", args |-> <<>>]
    /\ writes = {}
    /\ written = <<>>
    /\ returned = <<>>
    /\ pen = <<>>
    /\ stack = <<>>

\* Canvas::new storing the requested width and height in each other's field
New_swapped(w, h) ==
    /\ status = "uninit"
    /\ last.op = "none"
    /\ last' = [op |-> "new", args |-> <<w, h>>]
    /\ before' = buffer
    /\ writes' = {}
    /\ UNCHANGED <<written, returned, pen, stack>>
    /\ buffer' = buffer
    /\ IF BufLen(buffer) = w * h
       THEN /\ status' = "ok"
            /\ width' = h
            /\ height' = w
            /\ clamped_width' = Min(w, I32Max)
            /\ clamped_height' = Min(h, I32Max)
       ELSE /\ status' = "failed"
            /\ UNCHANGED <<width, height, clamped_width, clamped_height>>

\* Canvas::new accepting any storage that is at least width * height long
New_lax(w, h) ==
    /\ status = "uninit"
    /\ last.op = "none"
    /\ last' = [op |-> "new", args |-> <<w, h>>]
    /\ before' = buffer
    /\ writes' = {}
    /\ UNCHANGED <<written, returned, pen, stack>>
    /\ buffer' = buffer
    /\ IF BufLen(buffer) >= w * h
       THEN /\ status' = "ok"
            /\ width' = w
            /\ height' = h
            /\ clamped_width' = Min(w, I32Max)
            /\ clamped_height' = Min(h, I32Max)
       ELSE /\ status' = "failed"
            /\ UNCHANGED <<width, height, clamped_width, clamped_height>>

\* Canvas::new(buffer, w, h): assert!(buffer.len() == width * height)
New(w, h) ==
    /\ status = "uninit"
    /\ last.op = "none"
    /\ last' = [op |-> "new", args |-> <<w, h>>]
    /\ before' = buffer
    /\ writes' = {}
    /\ UNCHANGED <<written, returned, pen, stack>>
    /\ buffer' = buffer
    /\ IF BufLen(buffer) = w * h
       THEN /\ status' = "ok"
            /\ width' = w
            /\ height' = h
            /\ clamped_width' = Min(w, I32Max)
            /\ clamped_height' = Min(h, I32Max)
       ELSE /\ status' = "failed"
            /\ UNCHANGED <<width, height, clamped_width, clamped_height>>

\* a constructed canvas with no call in progress
Ready == status = "ok" /\ last.op = "none"

\* a method call on a constructed canvas: cv is the canvas the method leaves
Call(name, args, cv) ==
    /\ last' = [op |-> name, args |-> args]
    /\ before' = buffer
    /\ buffer' = cv.buffer
    /\ writes' = cv.writes
    /\ UNCHANGED <<written, returned, pen, stack>>
    /\ width' = cv.width
    /\ height' = cv.height
    /\ clamped_width' = cv.clamped_width
    /\ clamped_height' = cv.clamped_height
    /\ status' = IF cv.failed THEN "failed" ELSE "ok"

\* the call has returned to the caller: the history of the call is dropped, the
\* canvas is as the call left it
Return ==
    /\ status = "ok"
    /\ last.op # "none"
    /\ stack = <<>>
    /\ last' = [op |-> "none", args |-> <<>>]
    /\ before' = buffer
    /\ writes' = {}
    /\ UNCHANGED <<written, returned, pen, stack>>
    /\ UNCHANGED <<status, buffer, width, height, clamped_width, clamped_height>>

Construct ==
    /\ status = "uninit"
    /\ \E w \in Widths, h \in Heights : New(w, h)

Clear ==
    /\ Ready
    /\ \E c \in Colors : Call("clear", <<c>>, clear(Self, c))

SetPixel ==
    /\ Ready
    /\ \E x \in Xs, y \in Ys, c \in Colors :
        Call("set_pixel", <<x, y, c>>, set_pixel(Self, x, y, c))

FillRect ==
    /\ Ready
    /\ \E x \in Xs, y \in Ys, w \in Sizes, h \in Sizes, c \in Colors :
        Call("fill_rect", <<x, y, w, h, c>>, fill_rect(Self, x, y, w, h, c))

OutlineRect ==
    /\ Ready
    /\ \E x \in Xs, y \in Ys, w \in Sizes, h \in Sizes, c \in Colors :
        Call("outline_rect", <<x, y, w, h, c>>, outline_rect(Self, x, y, w, h, c))

ThickOutlineRect ==
    /\ Ready
    /\ \E x \in Xs, y \in Ys, w \in Sizes, h \in Sizes, t \in Thicknesses, c \in Colors :
        Call("thick_outline_rect", <<x, y, w, h, t, c>>,
             thick_outline_rect(Self, x, y, w, h, t, c))

FillCircle ==
    /\ Ready
    /\ \E x \in Xs, y \in Ys, r \in Sizes, c \in Colors :
        Call("fill_circle", <<x, y, r, c>>, fill_circle(Self, x, y, r, c))

OutlineCircle ==
    /\ Ready
    /\ \E x \in Xs, y \in Ys, r \in Sizes, c \in Colors :
        Call("outline_circle", <<x, y, r, c>>, outline_circle(Self, x, y, r, c))

ThickOutlineCircle ==
    /\ Ready
    /\ \E x \in Xs, y \in Ys, r \in Sizes, t \in Thicknesses, c \in Colors :
        Call("thick_outline_circle", <<x, y, r, t, c>>,
             thick_outline_circle(Self, x, y, r, t, c))

FillEllipse ==
    /\ Ready
    /\ \E x \in Xs, y \in Ys, a \in Sizes, b \in Sizes, c \in Colors :
        Call("fill_ellipse", <<x, y, a, b, c>>, fill_ellipse(Self, x, y, a, b, c))

OutlineEllipse ==
    /\ Ready
    /\ \E x \in Xs, y \in Ys, a \in Sizes, b \in Sizes, c \in Colors :
        Call("outline_ellipse", <<x, y, a, b, c>>, outline_ellipse(Self, x, y, a, b, c))

ThickOutlineEllipse ==
    /\ Ready
    /\ \E x \in Xs, y \in Ys, a \in Sizes, b \in Sizes, t \in Thicknesses, c \in Colors :
        Call("thick_outline_ellipse", <<x, y, a, b, t, c>>,
             thick_outline_ellipse(Self, x, y, a, b, t, c))

HLine ==
    /\ Ready
    /\ \E y \in Ys, x1 \in Xs, x2 \in Xs, c \in Colors :
        Call("hline", <<y, x1, x2, c>>, hline(Self, y, x1, x2, c))

VLine ==
    /\ Ready
    /\ \E x \in Xs, y1 \in Ys, y2 \in Ys, c \in Colors :
        Call("vline", <<x, y1, y2, c>>, vline(Self, x, y1, y2, c))

Line ==
    /\ Ready
    /\ \E x1 \in Xs, y1 \in Ys, x2 \in Xs, y2 \in Ys, c \in Colors :
        Call("line", <<x1, y1, x2, y2, c>>, line(Self, x1, y1, x2, y2, c))

FloodFill ==
    /\ Ready
    /\ \E x \in Xs, y \in Ys, c \in Colors :
        Call("flood_fill", <<x, y, c>>, flood_fill(Self, x, y, c))

Next ==
    \/ Construct
    \/ Return
    \/ Clear
    \/ SetPixel
    \/ FillRect
    \/ OutlineRect
    \/ ThickOutlineRect
    \/ FillCircle
    \/ OutlineCircle
    \/ ThickOutlineCircle
    \/ FillEllipse
    \/ OutlineEllipse
    \/ ThickOutlineEllipse
    \/ HLine
    \/ VLine
    \/ Line
    \/ FloodFill

Spec == Init /\ [][Next]_vars

(* ---------------- the flood-fill specification: larger canvases ------- *)

\* small canvases of any contents, and one 8x8 canvas cleared to 0
FloodWidths == 1..FloodW
FloodHeights == 1..FloodH

InitFlood ==
    /\ status = "uninit"
    /\ buffer \in UNION {Slices(w * h) : w \in FloodWidths, h \in FloodHeights}
                    \cup {[i \in 0..63 |-> 0]}
    /\ width = 0
    /\ height = 0
    /\ clamped_width = 0
    /\ clamped_height = 0
    /\ before = buffer
    /\ last = [op |-> "none", args |-> <<>>]
    /\ writes = {}
    /\ written = <<>>
    /\ returned = <<>>
    /\ pen = <<>>
    /\ stack = <<>>

ConstructFlood ==
    /\ status = "uninit"
    /\ \E w \in FloodWidths \cup {8}, h \in FloodHeights \cup {8} : New(w, h)

FloodFillAny ==
    /\ Ready
    /\ \E x \in 0..FloodW, y \in 0..FloodH, c \in Colors :
        Call("flood_fill", <<x, y, c>>, flood_fill(Self, x, y, c))

\* on the 8x8 canvas: the block (2,2)-(5,5) in RED or GREEN
FillRectBlock ==
    /\ Ready
    /\ width = 8
    /\ \E x \in {2}, y \in {2}, w \in {4}, h \in {4}, c \in {RED, GREEN} :
        Call("fill_rect", <<x, y, w, h, c>>, fill_rect(Self, x, y, w, h, c))

\* on the 8x8 canvas: flood fills started inside and outside the block
FloodFillBlock ==
    /\ Ready
    /\ width = 8
    /\ \E x \in {1, 3}, y \in {1, 3}, c \in {0, RED, GREEN} :
        Call("flood_fill", <<x, y, c>>, flood_fill(Self, x, y, c))

NextFlood ==
    \/ ConstructFlood
    \/ Return
    \/ FloodFillAny
    \/ FillRectBlock
    \/ FloodFillBlock

SpecFlood == InitFlood /\ [][NextFlood]_vars

(* --------- the thick-shape specification: triangles and thick lines --- *)

\* end points of lines: the canvas and one pixel around it
NearXs == (0 - 1)..MaxW
NearYs == (0 - 1)..MaxH

\* vertices of triangles: the canvas and one pixel right of and below it
TriXs == 0..MaxW
TriYs == 0..MaxH

ThickRect ==
    /\ Ready
    /\ \E x \in NearXs, y \in NearYs, w \in Sizes, h \in Sizes, t \in Thicknesses, c \in Colors :
        Call("thick_outline_rect", <<x, y, w, h, t, c>>,
             thick_outline_rect(Self, x, y, w, h, t, c))

ThickCircle ==
    /\ Ready
    /\ \E x \in NearXs, y \in NearYs, r \in Sizes, t \in Thicknesses, c \in Colors :
        Call("thick_outline_circle", <<x, y, r, t, c>>,
             thick_outline_circle(Self, x, y, r, t, c))

ThickEllipse ==
    /\ Ready
    /\ \E x \in NearXs, y \in NearYs, a \in Sizes, b \in Sizes, t \in Thicknesses, c \in Colors :
        Call("thick_outline_ellipse", <<x, y, a, b, t, c>>,
             thick_outline_ellipse(Self, x, y, a, b, t, c))

FillTriangle ==
    /\ Ready
    /\ \E x1 \in TriXs, y1 \in TriYs, x2 \in TriXs, y2 \in TriYs, x3 \in TriXs, y3 \in TriYs :
        Call("fill_triangle", <<x1, y1, x2, y2, x3, y3, 1>>,
             fill_triangle(Self, x1, y1, x2, y2, x3, y3, 1))

OutlineTriangle ==
    /\ Ready
    /\ \E x1 \in TriXs, y1 \in TriYs, x2 \in TriXs, y2 \in TriYs, x3 \in TriXs, y3 \in TriYs :
        Call("outline_triangle", <<x1, y1, x2, y2, x3, y3, 1>>,
             outline_triangle(Self, x1, y1, x2, y2, x3, y3, 1))

ThickOutlineTriangle ==
    /\ Ready
    /\ \E x1 \in TriXs, y1 \in TriYs, x2 \in TriXs, y2 \in TriYs, x3 \in TriXs, y3 \in TriYs,
          t \in Thicknesses :
        Call("thick_outline_triangle", <<x1, y1, x2, y2, x3, y3, t, 1>>,
             thick_outline_triangle(Self, x1, y1, x2, y2, x3, y3, t, 1))

ThickHLine ==
    /\ Ready
    /\ \E y \in NearYs, x1 \in NearXs, x2 \in NearXs, t \in Thicknesses, c \in Colors :
        Call("thick_hline", <<y, x1, x2, t, c>>, thick_hline(Self, y, x1, x2, t, c))

ThickVLine ==
    /\ Ready
    /\ \E x \in NearXs, y1 \in NearYs, y2 \in NearYs, t \in Thicknesses, c \in Colors :
        Call("thick_vline", <<x, y1, y2, t, c>>, thick_vline(Self, x, y1, y2, t, c))

LineMaybeAxisAligned ==
    /\ Ready
    /\ \E x1 \in NearXs, y1 \in NearYs, x2 \in NearXs, y2 \in NearYs, c \in Colors :
        Call("line_maybe_axis_aligned", <<x1, y1, x2, y2, c>>,
             line_maybe_axis_aligned(Self, x1, y1, x2, y2, c))

ThickLine ==
    /\ Ready
    /\ \E x1 \in NearXs, y1 \in NearYs, x2 \in NearXs, y2 \in NearYs, t \in Thicknesses,
          c \in Colors :
        Call("thick_line", <<x1, y1, x2, y2, t, c>>,
             thick_line(Self, x1, y1, x2, y2, t, c))

ThickLineMaybeAxisAligned ==
    /\ Ready
    /\ \E x1 \in NearXs, y1 \in NearYs, x2 \in NearXs, y2 \in NearYs, t \in Thicknesses,
          c \in Colors :
        Call("thick_line_maybe_axis_aligned", <<x1, y1, x2, y2, t, c>>,
             thick_line_maybe_axis_aligned(Self, x1, y1, x2, y2, t, c))

NextThick ==
    \/ Construct
    \/ Return
    \/ ThickRect
    \/ ThickCircle
    \/ ThickEllipse
    \/ FillTriangle
    \/ OutlineTriangle
    \/ ThickOutlineTriangle
    \/ ThickHLine
    \/ ThickVLine
    \/ LineMaybeAxisAligned
    \/ ThickLine
    \/ ThickLineMaybeAxisAligned

SpecThick == Init /\ [][NextThick]_vars

(* --------- the large-ellipse specification: realistic semi-axes -------- *)

\* semi-axes of images up to a few thousand pixels wide, next to a small one; the
\* ellipses are centred on the first pixel
LargeSizes == {1, MaxLarge \div 8, MaxLarge}

ThickOutlineEllipseLarge ==
    /\ Ready
    /\ \E a \in LargeSizes, b \in LargeSizes, t \in 2..(MaxThick + 1), c \in Colors :
        Call("thick_outline_ellipse", <<0, 0, a, b, t, c>>,
             thick_outline_ellipse(Self, 0, 0, a, b, t, c))

NextLarge ==
    \/ Construct
    \/ Return
    \/ ThickOutlineEllipseLarge

SpecLarge == Init /\ [][NextLarge]_vars

(* ----------------------- the ppm encoder (ppm.rs) --------------------- *)

\* buffer.chunks(2048): the pixels of one chunk
ChunkPixels == 2048

\* vec![0u8; 6144]: the length of tmp_buffer
TmpLen == 6144

\* u32::to_be_bytes
U32ToBeBytes(p) ==
    <<(p \div 16777216) % 256, (p \div 65536) % 256, (p \div 256) % 256, p % 256>>

\* the ASCII digits `{}` formats a usize with
RECURSIVE Decimal(_)
Decimal(n) == IF n < 10 THEN <<48 + n>> ELSE Decimal(n \div 10) \o <<48 + (n % 10)>>

\* writeln!(w, "P6 {} {} 255", width, height), as ASCII bytes
Header(w, h) ==
    <<80, 54, 32>> \o Decimal(w) \o <<32>> \o Decimal(h) \o <<32, 50, 53, 53, 10>>

\* the number of chunks of buffer.chunks(2048); the last one may be shorter
Chunks(buf) == (BufLen(buf) + ChunkPixels - 1) \div ChunkPixels

\* the chunk's bytes, each pixel without its first big-endian byte, stored to
\* tmp_buffer[0..]; the bytes after them stay as they were
FillTmp(tmp_buffer, buf, j) ==
    LET len == Min(ChunkPixels, BufLen(buf) - j * ChunkPixels)
    IN  [i \in 1..TmpLen |->
            IF i - 1 < 3 * len
            THEN U32ToBeBytes(buf[j * ChunkPixels + ((i - 1) \div 3)])[((i - 1) % 3) + 2]
            ELSE tmp_buffer[i]]

\* for chunk in buffer.chunks(2048) { ..; w.write_all(&tmp_buffer)?; } from chunk j on;
\* w is all the writer has received
RECURSIVE WriteChunks(_, _, _, _)
WriteChunks(buf, j, tmp_buffer, w) ==
    IF j >= Chunks(buf) THEN w
    ELSE LET filled == FillTmp(tmp_buffer, buf, j)
         IN  WriteChunks(buf, j + 1, filled, w \o filled)

\* ppm::encode_buffer to a writer that takes every byte (a Vec<u8>, say): the bytes
\* it has received when the function returns
encode_buffer(buf, w, h) ==
    WriteChunks(buf, 0, [i \in 1..TmpLen |-> 0], Header(w, h))

\* the buffers to encode hold up to MaxChunks whole chunks
MaxChunks == 2

\* packed pixels: black, rgb(12, 1, 231), two with a fourth byte that is not 0
PpmPixels == <<0, 786919, 16777471, I32Max>>

PpmLens ==
    {0, 1, 2, ChunkPixels - 1, ChunkPixels, ChunkPixels + 1, MaxChunks * ChunkPixels}

PpmWidths == {0, 1, 2, 64, ChunkPixels - 1, ChunkPixels, ChunkPixels + 1}

PpmHeights == {0, 1, 2, 32 * (MaxChunks - 1), 32 * MaxChunks}

\* a buffer of n pixels that cycles through PpmPixels
PpmBuffer(n, shift) == [i \in 0..(n - 1) |-> PpmPixels[((i + shift) % Len(PpmPixels)) + 1]]

InitPpm ==
    /\ status = "uninit"
    /\ buffer \in {PpmBuffer(n, shift) : n \in PpmLens, shift \in 0..(Len(PpmPixels) - 1)}
    /\ width = 0
    /\ height = 0
    /\ clamped_width = 0
    /\ clamped_height = 0
    /\ before = buffer
    /\ last = [op |-> "none", args |-> <<>>]
    /\ writes = {}
    /\ written = <<>>
    /\ returned = <<>>
    /\ pen = <<>>
    /\ stack = <<>>

ConstructPpm ==
    /\ status = "uninit"
    /\ \E w \in PpmWidths, h \in PpmHeights : New(w, h)

\* ppm::encode_buffer on a plain buffer, with any width and height
EncodeBuffer ==
    /\ status = "uninit"
    /\ last.op = "none"
    /\ \E w \in PpmWidths, h \in PpmHeights :
        /\ last' = [op |-> "encode_buffer", args |-> <<w, h>>]
        /\ written' = encode_buffer(buffer, w, h)
    /\ before' = buffer
    /\ UNCHANGED <<status, buffer, width, height, clamped_width, clamped_height,
                   writes, returned, pen, stack>>

\* ppm::encode_canvas: encode_buffer(canvas.buffer(), canvas.width(), canvas.height(), w)
EncodeCanvas ==
    /\ Ready
    /\ last' = [op |-> "encode_canvas", args |-> <<width, height>>]
    /\ written' = encode_buffer(buffer, width, height)
    /\ before' = buffer
    /\ UNCHANGED <<status, buffer, width, height, clamped_width, clamped_height,
                   writes, returned, pen, stack>>

NextPpm ==
    \/ ConstructPpm
    \/ Return
    \/ EncodeBuffer
    \/ EncodeCanvas

SpecPpm == InitPpm /\ [][NextPpm]_vars

(* ------------------------- colours (color.rs) ------------------------- *)

\* u32::from_le_bytes
U32FromLeBytes(bytes) ==
    bytes[1] + 256 * bytes[2] + 65536 * bytes[3] + 16777216 * bytes[4]

\* u32::to_le_bytes
U32ToLeBytes(v) ==
    <<v % 256, (v \div 256) % 256, (v \div 65536) % 256, (v \div 16777216) % 256>>

\* Color::rgb that packs the bytes in the order r, g, b
rgb_swapped(r, g, b) == U32FromLeBytes(<<r, g, b, 0>>)

\* Color::rgb: Self(u32::from_le_bytes([b, g, r, 0]))
rgb(r, g, b) == U32FromLeBytes(<<b, g, r, 0>>)

\* Color::to_rgb: let [b, g, r, _] = u32::to_le_bytes(self.0); (r, g, b)
to_rgb(self) ==
    LET bytes == U32ToLeBytes(self)
    IN  <<bytes[3], bytes[2], bytes[1]>>

\* channel values; 12, 1, 231 are those of the test `conversions`
ColorBytes == {0, 1, 12, 231, 255}

\* values of the fourth byte of a u32 (the model's integers end at i32::MAX)
TopBytes == {0, 1, 127}

U32s ==
    {U32FromLeBytes(<<b, g, r, t>>) : b \in ColorBytes, g \in ColorBytes,
                                       r \in ColorBytes, t \in TopBytes}

\* no canvas and no buffer: the functions of Color are applied to values
InitColor ==
    /\ status = "uninit"
    /\ buffer = <<>>
    /\ width = 0
    /\ height = 0
    /\ clamped_width = 0
    /\ clamped_height = 0
    /\ before = buffer
    /\ last = [op |-> "none", args |-> <<>>]
    /\ writes = {}
    /\ written = <<>>
    /\ returned = <<>>
    /\ pen = <<>>
    /\ stack = <<>>

\* Color::rgb(r, g, b)
Rgb ==
    /\ last.op = "none"
    /\ \E r \in ColorBytes, g \in ColorBytes, b \in ColorBytes :
        /\ last' = [op |-> "rgb", args |-> <<r, g, b>>]
        /\ returned' = <<rgb(r, g, b)>>
    /\ UNCHANGED <<status, buffer, width, height, clamped_width, clamped_height,
                   before, writes, written, pen, stack>>

\* Color::from(value: u32): Self(value)
FromU32 ==
    /\ last.op = "none"
    /\ \E value \in U32s :
        /\ last' = [op |-> "from", args |-> <<value>>]
        /\ returned' = <<value>>
    /\ UNCHANGED <<status, buffer, width, height, clamped_width, clamped_height,
                   before, writes, written, pen, stack>>

\* .to_rgb() on the Color that rgb or from has returned
ToRgb ==
    /\ last.op \in {"rgb", "from"}
    /\ last' = [op |-> "to_rgb", args |-> returned]
    /\ returned' = <<to_rgb(returned[1])>>
    /\ UNCHANGED <<status, buffer, width, height, clamped_width, clamped_height,
                   before, writes, written, pen, stack>>

NextColor ==
    \/ Rgb
    \/ FromU32
    \/ ToRgb

SpecColor == InitColor /\ [][NextColor]_vars

(* ------------------------------ the pen (pen.rs) ---------------------- *)

\* f32 values: whole numbers (exact in f32 below 2^24), the two infinities and NaN
Fin(n) == <<"fin", n>>

Inf(sign) == <<"inf", sign>>

NaN == <<"nan", 0>>

\* a < b on f32: false when either is NaN
F32Lt(a, b) ==
    CASE a[1] = "nan" \/ b[1] = "nan" -> FALSE
      [] a[1] = b[1] -> a[2] < b[2]
      [] a[1] = "inf" -> a[2] < 0
      [] OTHER -> b[2] > 0

\* a <= b on f32
F32Le(a, b) == a[1] # "nan" /\ b[1] # "nan" /\ (a = b \/ F32Lt(a, b))

\* a + b on f32: inf + -inf is NaN
F32Add(a, b) ==
    CASE a[1] = "nan" \/ b[1] = "nan" -> NaN
      [] a[1] = "inf" /\ b[1] = "inf" -> IF a[2] = b[2] THEN a ELSE NaN
      [] a[1] = "inf" -> a
      [] b[1] = "inf" -> b
      [] OTHER -> Fin(a[2] + b[2])

\* a * b on f32: 0 * inf is NaN
F32Mul(a, b) ==
    CASE a[1] = "nan" \/ b[1] = "nan" -> NaN
      [] a[1] = "fin" /\ b[1] = "fin" -> Fin(a[2] * b[2])
      [] a[2] = 0 \/ b[2] = 0 -> NaN
      [] OTHER -> Inf(IF (a[2] < 0) = (b[2] < 0) THEN 1 ELSE 0 - 1)

\* -a on f32
F32Neg(a) == IF a[1] = "nan" THEN a ELSE <<a[1], 0 - a[2]>>

\* a as i32: NaN is 0, the cast saturates
F32AsI32(a) ==
    CASE a[1] = "nan" -> 0
      [] a[1] = "inf" -> IF a[2] > 0 THEN I32Max ELSE 0 - I32Max - 1
      [] OTHER -> a[2]

\* f32::clamp: assert!(min <= max); NaN stays NaN.  << >> is the panic
F32Clamp(v, min, max) ==
    IF ~F32Le(min, max) THEN <<>>
    ELSE IF F32Lt(v, min) THEN <<min>>
    ELSE IF F32Lt(max, v) THEN <<max>>
    ELSE <<v>>

\* f32::sin_cos of the directions of the model: (sin, cos) of 0.0 is (0.0, 1.0)
SinCos(direction) == <<Fin(0), Fin(1)>>

\* Color::WHITE
WHITE == 16777215

\* PenState::default()
DefaultPenState ==
    [position |-> <<Fin(0), Fin(0)>>, direction |-> Fin(0), color |-> WHITE,
     thickness |-> 1, is_down |-> TRUE, bounds |-> <<>>]

\* Pen::bound_pos: << >> is the panic of clamp
bound_pos(state, x, y) ==
    IF state.bounds = <<>> THEN <<<<x, y>>>>
    ELSE IF ~F32Le(state.bounds[1], state.bounds[2]) \/ ~F32Le(state.bounds[3], state.bounds[4])
    THEN <<>>
    ELSE <<F32Clamp(x, state.bounds[1], state.bounds[2])
           \o F32Clamp(y, state.bounds[3], state.bounds[4])>>

\* self.state.position = a bounded position; p is the pen: its canvas and its state
Positioned(p, pos) ==
    IF pos = <<>> THEN [p EXCEPT !.cv = Panic(@)]
    ELSE [p EXCEPT !.state.position = pos[1]]

\* Pen::bound_self
bound_self(p) ==
    Positioned(p, bound_pos(p.state, p.state.position[1], p.state.position[2]))

\* Pen::with_state
with_state(cv, state) == bound_self([cv |-> cv, state |-> state])

\* Pen::set_state
set_state(p, state) == bound_self([p EXCEPT !.state = state])

\* Pen::set_bounds
set_bounds(p, xmin, xmax, ymin, ymax) ==
    bound_self([p EXCEPT !.state.bounds = <<xmin, xmax, ymin, ymax>>])

\* Pen::set_bounds_to_canvas; width - 1 and height - 1 are usize: on an empty canvas
\* they overflow, a panic (without overflow checks they wrap to usize::MAX)
set_bounds_to_canvas(p) ==
    IF p.cv.width = 0 \/ p.cv.height = 0 THEN [p EXCEPT !.cv = Panic(@)]
    ELSE set_bounds(p, Fin(0), Fin(p.cv.width - 1), Fin(0), Fin(p.cv.height - 1))

\* Pen::reset
reset(p) == bound_self([p EXCEPT !.state = DefaultPenState])

\* Pen::set_position
set_position(p, x, y) == Positioned(p, bound_pos(p.state, x, y))

\* the round caps of Pen::stroke
Caps(cv, state, x1, y1, x2, y2) ==
    IF state.thickness > 1
    THEN fill_circle(fill_circle(cv, x1, y1, state.thickness \div 2, state.color),
                     x2, y2, state.thickness \div 2, state.color)
    ELSE cv

\* Pen::stroke
stroke(p, x1, y1, x2, y2) ==
    Caps(thick_line(p.cv, x1, y1, x2, y2, p.state.thickness, p.state.color),
         p.state, x1, y1, x2, y2)

\* Moved for a pen that draws whether it is down or not
Moved_always_down(p, pos) ==
    IF pos = <<>> THEN [p EXCEPT !.cv = Panic(@)]
    ELSE [cv |-> stroke(p, F32AsI32(p.state.position[1]), F32AsI32(p.state.position[2]),
                        F32AsI32(pos[1][1]), F32AsI32(pos[1][2])),
          state |-> [p.state EXCEPT !.position = pos[1]]]

\* the common end of set_position_draw and forward: if self.state.is_down
\* { self.stroke(..) } self.state.position = the bounded position
Moved(p, pos) ==
    IF pos = <<>> THEN [p EXCEPT !.cv = Panic(@)]
    ELSE IF p.state.is_down
    THEN [cv |-> stroke(p, F32AsI32(p.state.position[1]), F32AsI32(p.state.position[2]),
                        F32AsI32(pos[1][1]), F32AsI32(pos[1][2])),
          state |-> [p.state EXCEPT !.position = pos[1]]]
    ELSE [p EXCEPT !.state.position = pos[1]]

\* Pen::set_position_draw
set_position_draw(p, x, y) == Moved(p, bound_pos(p.state, x, y))

\* the position forward(amount) heads for
Ahead(state, amount) ==
    <<F32Add(state.position[1], F32Mul(SinCos(state.direction)[2], amount)),
      F32Add(state.position[2], F32Mul(SinCos(state.direction)[1], amount))>>

\* Pen::forward
forward(p, amount) ==
    Moved(p, bound_pos(p.state, Ahead(p.state, amount)[1], Ahead(p.state, amount)[2]))

\* Pen::backward
backward(p, amount) == forward(p, F32Neg(amount))

\* Pen::set_thickness
set_thickness(p, thickness) == [p EXCEPT !.state.thickness = thickness]

\* Pen::pen_up
pen_up(p) == [p EXCEPT !.state.is_down = FALSE]

\* Pen::pen_down
pen_down(p) == [p EXCEPT !.state.is_down = TRUE]

\* Pen::pen_toggle
pen_toggle(p) == [p EXCEPT !.state.is_down = ~@]

\* finite coordinates of the pen stay within MaxPos of the origin
MaxPos == 2

PenNumbers == {Fin(n) : n \in (0 - 1)..MaxPos}

\* arguments of set_position and set_position_draw
PenCoords == PenNumbers \cup {NaN, Inf(1)}

\* arguments of forward and backward
PenAmounts == {Fin(0 - 1), Fin(1), Fin(MaxPos), Inf(1), NaN}

\* bounds: ordered ones, a single point, and xmin > xmax
PenBounds ==
    {<<Fin(0), Fin(1), Fin(0), Fin(1)>>, <<Fin(1), Fin(1), Fin(0 - 1), Fin(MaxPos)>>,
     <<Fin(1), Fin(0), Fin(0), Fin(1)>>}

\* states handed to with_state and set_state
PenStates ==
    {[DefaultPenState EXCEPT !.position = <<x, x>>, !.bounds = b, !.is_down = d] :
        x \in {Fin(0), Fin(MaxPos)}, b \in PenBounds \cup {<<>>}, d \in BOOLEAN}

\* the canvas of the pen specification: all black
InitPen ==
    /\ status = "uninit"
    /\ buffer \in {[i \in 0..(n - 1) |-> 0] : n \in {0, MaxW * MaxH}}
    /\ width = 0
    /\ height = 0
    /\ clamped_width = 0
    /\ clamped_height = 0
    /\ before = buffer
    /\ last = [op |-> "none", args |-> <<>>]
    /\ writes = {}
    /\ written = <<>>
    /\ returned = <<>>
    /\ pen = <<>>
    /\ stack = <<>>

ConstructPen ==
    /\ status = "uninit"
    /\ \E w \in {0, MaxW}, h \in {MaxH} : New(w, h)

\* the pen as its methods see it
ThePen == [cv |-> Self, state |-> pen[1]]

\* a call of a method of the pen: p is the pen the method leaves
PenCall(name, args, p) ==
    /\ last' = [op |-> name, args |-> args]
    /\ before' = buffer
    /\ buffer' = p.cv.buffer
    /\ writes' = p.cv.writes
    /\ width' = p.cv.width
    /\ height' = p.cv.height
    /\ clamped_width' = p.cv.clamped_width
    /\ clamped_height' = p.cv.clamped_height
    /\ status' = IF p.cv.failed THEN "failed" ELSE "ok"
    /\ pen' = <<p.state>>
    /\ UNCHANGED <<written, returned, stack>>

\* no move of the model is longer than the canvas and MaxPos: the coordinates a pen
\* that is down draws between are finite
Drawable(p, x, y) ==
    \/ /\ bound_pos(p.state, x, y) # <<>>
       /\ \A v \in {p.state.position[1], p.state.position[2],
                    bound_pos(p.state, x, y)[1][1], bound_pos(p.state, x, y)[1][2]} :
            v[1] # "inf"
    \/ bound_pos(p.state, x, y) = <<>>

\* the finite coordinates stay within MaxPos
Within(p) ==
    \A i \in 1..2 : p.state.position[i][1] = "fin" =>
        p.state.position[i][2] \in (0 - MaxPos)..MaxPos

\* Canvas::pen, Pen::new
PenNew ==
    /\ Ready
    /\ pen = <<>>
    /\ PenCall("pen", <<>>, with_state(Self, DefaultPenState))

WithState ==
    /\ Ready
    /\ pen = <<>>
    /\ \E state \in PenStates : PenCall("with_state", <<state>>, with_state(Self, state))

PenReady == Ready /\ pen # <<>>

SetState ==
    /\ PenReady
    /\ \E state \in PenStates : PenCall("set_state", <<state>>, set_state(ThePen, state))

SetBounds ==
    /\ PenReady
    /\ \E b \in PenBounds : PenCall("set_bounds", b, set_bounds(ThePen, b[1], b[2], b[3], b[4]))

SetBoundsToCanvas ==
    /\ PenReady
    /\ PenCall("set_bounds_to_canvas", <<>>, set_bounds_to_canvas(ThePen))

Reset ==
    /\ PenReady
    /\ PenCall("reset", <<>>, reset(ThePen))

SetPosition ==
    /\ PenReady
    /\ \E x \in PenCoords, y \in PenCoords :
        PenCall("set_position", <<x, y>>, set_position(ThePen, x, y))

SetPositionDraw ==
    /\ PenReady
    /\ \E x \in PenCoords, y \in PenCoords :
        /\ Drawable(ThePen, x, y)
        /\ PenCall("set_position_draw", <<x, y>>, set_position_draw(ThePen, x, y))

Forward ==
    /\ PenReady
    /\ \E amount \in PenAmounts :
        /\ Drawable(ThePen, Ahead(pen[1], amount)[1], Ahead(pen[1], amount)[2])
        /\ Within(forward([ThePen EXCEPT !.state.is_down = FALSE], amount))
        /\ PenCall("forward", <<amount>>, forward(ThePen, amount))

Backward ==
    /\ PenReady
    /\ \E amount \in PenAmounts :
        /\ Drawable(ThePen, Ahead(pen[1], F32Neg(amount))[1], Ahead(pen[1], F32Neg(amount))[2])
        /\ Within(backward([ThePen EXCEPT !.state.is_down = FALSE], amount))
        /\ PenCall("backward", <<amount>>, backward(ThePen, amount))

SetThickness ==
    /\ PenReady
    /\ \E thickness \in 1..MaxThick :
        PenCall("set_thickness", <<thickness>>, set_thickness(ThePen, thickness))

PenUp ==
    /\ PenReady
    /\ PenCall("pen_up", <<>>, pen_up(ThePen))

PenDown ==
    /\ PenReady
    /\ PenCall("pen_down", <<>>, pen_down(ThePen))

PenToggle ==
    /\ PenReady
    /\ PenCall("pen_toggle", <<>>, pen_toggle(ThePen))

NextPen ==
    \/ ConstructPen
    \/ Return
    \/ PenNew
    \/ WithState
    \/ SetState
    \/ SetBounds
    \/ SetBoundsToCanvas
    \/ Reset
    \/ SetPosition
    \/ SetPositionDraw
    \/ Forward
    \/ Backward
    \/ SetThickness
    \/ PenUp
    \/ PenDown
    \/ PenToggle

SpecPen == InitPen /\ [][NextPen]_vars

(* --------- flood fill step by step: the calls on a stack ------------- *)

\* the frame of a call of flood_fill_start: its parameters and locals
StartFrame(x, y, seed_color, raw_color) ==
    [fn |-> "start", pc |-> "loop", x |-> x, y |-> y, ox |-> x, oy |-> y, sx |-> 0,
     row_len |-> 0, last_row_len |-> 0, ux |-> 0, end |-> 0,
     seed_color |-> seed_color, raw_color |-> raw_color]

\* the frame of a call of flood_fill_core: let mut last_row_len = 0
CoreFrame(x, y, seed_color, raw_color) ==
    [fn |-> "core", pc |-> "row", x |-> x, y |-> y, ox |-> 0, oy |-> 0, sx |-> 0,
     row_len |-> 0, last_row_len |-> 0, ux |-> 0, end |-> 0,
     seed_color |-> seed_color, raw_color |-> raw_color]

\* the call that is running
Top(frames) == frames[Len(frames)]

\* the running call goes on as frame f
Go(cv, frames, f) == [cv |-> cv, stack |-> [frames EXCEPT ![Len(frames)] = f]]

\* the running call, as frame f, calls g
Enter(cv, frames, f, g) ==
    [cv |-> cv, stack |-> Append([frames EXCEPT ![Len(frames)] = f], g)]

\* the running call returns
Leave(cv, frames) == [cv |-> cv, stack |-> SubSeq(frames, 1, Len(frames) - 1)]

\* an index out of bounds: the panic unwinds every call
Crash(cv) == [cv |-> Panic(cv), stack |-> <<>>]

\* self.buffer[y * self.width + x] == seed_color, for an index inside the buffer
IsSeed(cv, x, y, f) == cv.buffer[y * cv.width + x] = f.seed_color

\* a walk to the left that stays where it is
WalkedLeft_staying(f) == f

\* x -= 1 in the seed-find loop
WalkedLeft(f) == [f EXCEPT !.x = @ - 1]

\* one step of flood_fill_start: a turn of one of its loops, the call of
\* flood_fill_core, or the return
StartStep(cv, frames, f) ==
    CASE f.pc = "loop" -> Go(cv, frames, [f EXCEPT !.ox = f.x, !.oy = f.y, !.pc = "up"])
      [] f.pc = "up" ->
            IF f.y = 0 THEN Go(cv, frames, [f EXCEPT !.pc = "left"])
            ELSE IF ~InBuf(cv, (f.y - 1) * cv.width + f.x) THEN Crash(cv)
            ELSE IF IsSeed(cv, f.x, f.y - 1, f) THEN Go(cv, frames, [f EXCEPT !.y = @ - 1])
            ELSE Go(cv, frames, [f EXCEPT !.pc = "left"])
      [] f.pc = "left" ->
            IF f.x = 0 THEN Go(cv, frames, [f EXCEPT !.pc = "check"])
            ELSE IF ~InBuf(cv, f.y * cv.width + (f.x - 1)) THEN Crash(cv)
            ELSE IF IsSeed(cv, f.x - 1, f.y, f) THEN Go(cv, frames, WalkedLeft(f))
            ELSE Go(cv, frames, [f EXCEPT !.pc = "check"])
      [] f.pc = "check" ->
            IF f.x = f.ox /\ f.y = f.oy
            THEN Enter(cv, frames, [f EXCEPT !.pc = "ret"],
                       CoreFrame(f.x, f.y, f.seed_color, f.raw_color))
            ELSE Go(cv, frames, [f EXCEPT !.pc = "loop"])
      [] OTHER -> Leave(cv, frames)

\* the head of a turn of the row loop of flood_fill_core
CoreRowStep(cv, frames, f) ==
    IF f.last_row_len = 0
    THEN Go(cv, frames, [f EXCEPT !.row_len = 0, !.sx = f.x, !.pc = "left"])
    ELSE IF ~InBuf(cv, f.y * cv.width + f.x) THEN Crash(cv)
    ELSE Go(cv, frames, [f EXCEPT !.row_len = 0, !.sx = f.x,
                                  !.pc = IF IsSeed(cv, f.x, f.y, f) THEN "left" ELSE "skip"])

\* a turn of the loop that skips what is not seed-coloured below the row above
CoreSkipStep(cv, frames, f) ==
    IF f.last_row_len - 1 = 0
    THEN Go(cv, frames, [f EXCEPT !.last_row_len = 0, !.pc = "ret"])
    ELSE IF ~InBuf(cv, f.y * cv.width + f.x + 1) THEN Crash(cv)
    ELSE IF IsSeed(cv, f.x + 1, f.y, f)
    THEN Go(cv, frames, [f EXCEPT !.last_row_len = @ - 1, !.x = @ + 1, !.sx = f.x + 1,
                                  !.pc = "right"])
    ELSE Go(cv, frames, [f EXCEPT !.last_row_len = @ - 1, !.x = @ + 1])

\* a turn of the loop that extends the run to the left
CoreLeftStep(cv, frames, f) ==
    IF f.x = 0 THEN Go(cv, frames, [f EXCEPT !.pc = "right"])
    ELSE IF ~InBuf(cv, f.y * cv.width + f.x - 1) THEN Crash(cv)
    ELSE IF ~IsSeed(cv, f.x - 1, f.y, f) THEN Go(cv, frames, [f EXCEPT !.pc = "right"])
    ELSE IF f.y = 0
    THEN Go(Store(cv, f.x - 1, f.y, f.raw_color), frames,
            [f EXCEPT !.x = @ - 1, !.row_len = @ + 1, !.last_row_len = @ + 1])
    ELSE IF ~InBuf(cv, (f.y - 1) * cv.width + f.x - 1) THEN Crash(cv)
    ELSE IF IsSeed(cv, f.x - 1, f.y - 1, f)
    THEN Enter(Store(cv, f.x - 1, f.y, f.raw_color), frames,
               [f EXCEPT !.x = @ - 1, !.row_len = @ + 1, !.last_row_len = @ + 1],
               StartFrame(f.x - 1, f.y - 1, f.seed_color, f.raw_color))
    ELSE Go(Store(cv, f.x - 1, f.y, f.raw_color), frames,
            [f EXCEPT !.x = @ - 1, !.row_len = @ + 1, !.last_row_len = @ + 1])

\* a turn of the loop that fills the run to the right
CoreRightStep(cv, frames, f) ==
    IF ~(f.sx < cv.width) THEN Go(cv, frames, [f EXCEPT !.pc = "branch"])
    ELSE IF ~InBuf(cv, f.y * cv.width + f.sx) THEN Crash(cv)
    ELSE IF IsSeed(cv, f.sx, f.y, f)
    THEN Go(Store(cv, f.sx, f.y, f.raw_color), frames,
            [f EXCEPT !.row_len = @ + 1, !.sx = @ + 1])
    ELSE Go(cv, frames, [f EXCEPT !.pc = "branch"])

\* if row_len < last_row_len { .. } else if row_len > last_row_len && y != 0 { .. }
CoreBranchStep(cv, frames, f) ==
    IF f.row_len < f.last_row_len
    THEN Go(cv, frames, [f EXCEPT !.end = f.x + f.last_row_len, !.pc = "shrink"])
    ELSE IF f.row_len > f.last_row_len /\ f.y # 0
    THEN Go(cv, frames, [f EXCEPT !.ux = f.x + f.last_row_len, !.pc = "grow"])
    ELSE Go(cv, frames, [f EXCEPT !.pc = "next"])

\* a turn of the loop over the rest of the run of the row above
CoreShrinkStep(cv, frames, f) ==
    IF f.sx + 1 >= f.end THEN Go(cv, frames, [f EXCEPT !.sx = @ + 1, !.pc = "next"])
    ELSE IF ~InBuf(cv, f.y * cv.width + f.sx + 1) THEN Crash(cv)
    ELSE IF IsSeed(cv, f.sx + 1, f.y, f)
    THEN Enter(cv, frames, [f EXCEPT !.sx = @ + 1],
               CoreFrame(f.sx + 1, f.y, f.seed_color, f.raw_color))
    ELSE Go(cv, frames, [f EXCEPT !.sx = @ + 1])

\* a turn of the loop over what this run has more than the row above
CoreGrowStep(cv, frames, f) ==
    IF f.ux + 1 >= f.sx THEN Go(cv, frames, [f EXCEPT !.ux = @ + 1, !.pc = "next"])
    ELSE IF ~InBuf(cv, (f.y - 1) * cv.width + f.ux + 1) THEN Crash(cv)
    ELSE IF IsSeed(cv, f.ux + 1, f.y - 1, f)
    THEN Enter(cv, frames, [f EXCEPT !.ux = @ + 1],
               StartFrame(f.ux + 1, f.y - 1, f.seed_color, f.raw_color))
    ELSE Go(cv, frames, [f EXCEPT !.ux = @ + 1])

\* last_row_len = row_len; y += 1; if last_row_len == 0 || y >= self.height { break }
CoreNextStep(cv, frames, f) ==
    Go(cv, frames, [f EXCEPT !.last_row_len = f.row_len, !.y = @ + 1,
                             !.pc = IF f.row_len = 0 \/ f.y + 1 >= cv.height
                                    THEN "ret" ELSE "row"])

\* one step of flood_fill_core
CoreStep(cv, frames, f) ==
    CASE f.pc = "row" -> CoreRowStep(cv, frames, f)
      [] f.pc = "skip" -> CoreSkipStep(cv, frames, f)
      [] f.pc = "left" -> CoreLeftStep(cv, frames, f)
      [] f.pc = "right" -> CoreRightStep(cv, frames, f)
      [] f.pc = "branch" -> CoreBranchStep(cv, frames, f)
      [] f.pc = "shrink" -> CoreShrinkStep(cv, frames, f)
      [] f.pc = "grow" -> CoreGrowStep(cv, frames, f)
      [] f.pc = "next" -> CoreNextStep(cv, frames, f)
      [] OTHER -> Leave(cv, frames)

\* one step of the running call
FloodStepOf(cv, frames) ==
    IF Top(frames).fn = "start" THEN StartStep(cv, frames, Top(frames))
    ELSE CoreStep(cv, frames, Top(frames))

\* Canvas::flood_fill up to its call of flood_fill_start
FloodEntry(cv, x, y, raw_color) ==
    IF 0 <= x /\ x < cv.clamped_width /\ 0 <= y /\ y < cv.clamped_height
    THEN IF ~InBuf(cv, y * cv.width + x) THEN Crash(cv)
         ELSE IF cv.buffer[y * cv.width + x] # raw_color
         THEN [cv |-> cv,
               stack |-> <<StartFrame(x, y, cv.buffer[y * cv.width + x], raw_color)>>]
         ELSE [cv |-> cv, stack |-> <<>>]
    ELSE [cv |-> cv, stack |-> <<>>]

\* the canvas and the stack after a step
Stepped_to(r) ==
    /\ buffer' = r.cv.buffer
    /\ status' = IF r.cv.failed THEN "failed" ELSE "ok"
    /\ stack' = r.stack
    /\ UNCHANGED <<width, height, clamped_width, clamped_height, written, returned, pen>>

\* a call of flood_fill begins
FloodBegin ==
    /\ Ready
    /\ \E x \in 0..FloodW, y \in 0..FloodH, c \in Colors :
        /\ last' = [op |-> "flood_fill", args |-> <<x, y, c>>]
        /\ before' = buffer
        /\ writes' = {}
        /\ Stepped_to(FloodEntry(Self, x, y, c))

\* the running call takes a step
FloodStep ==
    /\ status = "ok"
    /\ stack # <<>>
    /\ writes' = writes \cup FloodStepOf(Self, stack).cv.writes
    /\ UNCHANGED <<last, before>>
    /\ Stepped_to(FloodStepOf(Self, stack))

NextFloodSteps ==
    \/ ConstructFlood
    \/ Return
    \/ FloodBegin
    \/ FloodStep

\* a call that can take a step takes it
SpecFloodSteps == InitFlood /\ [][NextFloodSteps]_vars /\ WF_vars(FloodStep)

(* --------- the midpoint loops: the states their variables go through -- *)

\* (x + i).clamp(0, self.clamped_width - 1) panics: assert!(min <= max)
ClampPanics(cv) == 0 > cv.clamped_width - 1

\* no more turns of a loop are followed than this
MaxTurns == 64

\* the <<i, j, err>> of fill_circle (fill) or outline_circle at the head of each turn
\* of the loop, and after the break; a panic in a turn ends the sequence there
RECURSIVE CircleStates(_, _, _, _)
CircleStates(fill, cv, s, turns) ==
    IF (fill /\ ClampPanics(cv)) \/ turns = 0 THEN <<s>>
    ELSE LET n == IF fill THEN FillCircleStep(s[1], s[2], s[3])
                  ELSE OutlineCircleStep(s[1], s[2], s[3])
         IN  IF n[1] >= 0 THEN <<s, n>>
             ELSE <<s>> \o CircleStates(fill, cv, n, turns - 1)

\* let mut i = -r; let mut j = 0; let mut err = 2 - 2 * r;
CircleStart(r) == <<0 - r, 0, 2 - 2 * r>>

\* the <<i, j, err>> of the main loop of fill_ellipse (fill) or outline_ellipse
RECURSIVE EllipseStates(_, _, _, _, _, _)
EllipseStates(fill, cv, s, a2, b2, turns) ==
    IF (fill /\ ClampPanics(cv)) \/ turns = 0 THEN <<s>>
    ELSE LET n == IF fill THEN FillEllipseStep(s[1], s[2], s[3], a2, b2)
                  ELSE OutlineEllipseStep(s[1], s[2], s[3], a2, b2)
         IN  IF n[1] > 0 THEN <<s, n>>
             ELSE <<s>> \o EllipseStates(fill, cv, n, a2, b2, turns - 1)

\* let mut i = -a; let mut j = 0; let mut err = i * (2 * b2 + i) + b2;
EllipseStart(a, b) == <<0 - a, 0, (0 - a) * (2 * (b * b) + (0 - a)) + b * b>>

\* the j of the trailing loop while j < b { j += 1; .. } at the head of each turn and
\* after the loop
RECURSIVE TailStates(_, _, _)
TailStates(j, b, turns) ==
    IF ~(j < b) \/ turns = 0 THEN <<j>>
    ELSE <<j>> \o TailStates(j + 1, b, turns - 1)

\* the states of both loops of an ellipse; the trailing loop runs after the break of
\* the main loop
EllipseVisits(main, b) ==
    [main |-> main,
     tail |-> IF main[Len(main)][1] > 0 THEN TailStates(main[Len(main)][2], b, MaxTurns)
              ELSE << >>]

\* the update of <<xo, xi, j, erro, erri>> at the end of a turn of thick_outline_circle
ThickCircleStep(s, ri) ==
    LET j == s[3] + 1
        xo == IF s[4] < 0 THEN s[1] ELSE s[1] - 1
        erro == IF s[4] < 0 THEN s[4] + (2 * j + 1) ELSE s[4] + (2 * (j - xo) + 1)
        xi == IF j > ri THEN j ELSE IF s[5] < 0 THEN s[2] ELSE s[2] - 1
        erri == IF j > ri THEN s[5]
                ELSE IF s[5] < 0 THEN s[5] + (2 * j + 1)
                ELSE s[5] + (2 * (j - xi) + 1)
    IN  <<xo, xi, j, erro, erri>>

\* the <<xo, xi, j, erro, erri>> of thick_outline_circle at the head of each turn of
\* while xo >= j and after the loop
RECURSIVE ThickCircleStates(_, _, _)
ThickCircleStates(s, ri, turns) ==
    IF ~(s[1] >= s[3]) \/ turns = 0 THEN <<s>>
    ELSE <<s>> \o ThickCircleStates(ThickCircleStep(s, ri), ri, turns - 1)

\* let ro = r + half_thickness; let ri = ro - thickness + 1; xo = ro; xi = ri; ..
ThickCircleVisits(r, thickness) ==
    ThickCircleStates(<<r + thickness \div 2, r + thickness \div 2 - thickness + 1, 0,
                        1 - (r + thickness \div 2),
                        1 - (r + thickness \div 2 - thickness + 1)>>,
                      r + thickness \div 2 - thickness + 1, MaxTurns)

\* which `while` loops of thick_outline_ellipse have ended: the 1st phase, the first
\* loop of the if branch of the 2nd, the 2nd, the 3rd and the 4th phase
EndsFromThird(first, second, third, k, x, y, raw_color) ==
    <<first.brk,
      first.cv.failed \/ ~(first.e.outer_dy[1] < first.e.outer_dx[1])
        \/ EllipseSecondIf(first, k, x, y, raw_color).brk,
      second.brk, third.brk, EllipseFourth(third, k, x, y, raw_color).brk>>

EndsFromSecond(first, second, k, x, y, raw_color) ==
    EndsFromThird(first, second, EllipseThird(second, k, x, y, raw_color), k, x, y, raw_color)

EndsFromFirst(first, k, x, y, raw_color) ==
    EndsFromSecond(first, EllipseSecond(first, k, x, y, raw_color), k, x, y, raw_color)

EllipseEnds(cv, k, x, y, raw_color) ==
    EndsFromFirst(EllipseFirst(cv, EllipseSetUp(k, I32(0)), k, x, y, raw_color),
                  k, x, y, raw_color)

(* --------- the round-shape specification: larger radii and canvases --- *)

\* radii and semi-axes
MaxRadius == 3

\* the side of the canvas that holds every circle of the specification
RoundSide == 8

Radii == 1..MaxRadius

\* thicknesses: the least ones, and those that make every inner semi-axis zero and
\* negative
RoundThicks == {2, 3, 2 * MaxRadius, 2 * MaxRadius + 2}

\* centres: a corner of the canvas and the middle of the large canvas
Centres == {0, RoundSide \div 2 - 1, RoundSide \div 2}

\* <<width, height>> of the canvases: without pixels, a small and a large one
RoundCanvases == {<<0, MaxH>>, <<MaxW, 0>>, <<MaxW, MaxH>>, <<RoundSide, RoundSide>>}

\* black canvases: empty ones, a small and a large one
InitRound ==
    /\ status = "uninit"
    /\ buffer \in {[i \in 0..(n - 1) |-> 0] : n \in {0, MaxW * MaxH, RoundSide * RoundSide}}
    /\ width = 0
    /\ height = 0
    /\ clamped_width = 0
    /\ clamped_height = 0
    /\ before = buffer
    /\ last = [op |-> "none", args |-> <<>>]
    /\ writes = {}
    /\ written = <<>>
    /\ returned = <<>>
    /\ pen = <<>>
    /\ stack = <<>>

ConstructRound ==
    /\ status = "uninit"
    /\ \E wh \in RoundCanvases :
        /\ BufLen(buffer) = wh[1] * wh[2]
        /\ New(wh[1], wh[2])

\* a call of a method with a midpoint loop: cv is the canvas it leaves, visits the
\* states its loop variables have gone through
RoundCall(name, args, cv, visits) ==
    /\ last' = [op |-> name, args |-> args]
    /\ before' = buffer
    /\ buffer' = cv.buffer
    /\ writes' = cv.writes
    /\ width' = cv.width
    /\ height' = cv.height
    /\ clamped_width' = cv.clamped_width
    /\ clamped_height' = cv.clamped_height
    /\ status' = IF cv.failed THEN "failed" ELSE "ok"
    /\ returned' = <<visits>>
    /\ UNCHANGED <<written, pen, stack>>

\* the call has returned to the caller: the history of the call and the states of
\* its loop are dropped
ReturnRound ==
    /\ status = "ok"
    /\ last.op # "none"
    /\ last' = [op |-> "none", args |-> <<>>]
    /\ before' = buffer
    /\ writes' = {}
    /\ returned' = <<>>
    /\ UNCHANGED <<status, buffer, width, height, clamped_width, clamped_height,
                   written, pen, stack>>

\* the canvas is all black
Black == \A i \in DOMAIN buffer : buffer[i] = 0

ClearRound ==
    /\ Ready
    /\ ~Black
    /\ Call("clear", <<0>>, clear(Self, 0))

FillCircleRound ==
    /\ Ready
    /\ Black
    /\ \E x \in Centres, y \in Centres, r \in Radii :
        RoundCall("fill_circle", <<x, y, r, 1>>, fill_circle(Self, x, y, r, 1),
                  CircleStates(TRUE, Self, CircleStart(r), MaxTurns))

OutlineCircleRound ==
    /\ Ready
    /\ Black
    /\ \E x \in Centres, y \in Centres, r \in Radii :
        RoundCall("outline_circle", <<x, y, r, 1>>, outline_circle(Self, x, y, r, 1),
                  CircleStates(FALSE, Self, CircleStart(r), MaxTurns))

FillEllipseRound ==
    /\ Ready
    /\ Black
    /\ \E x \in Centres, y \in Centres, a \in Radii, b \in Radii :
        RoundCall("fill_ellipse", <<x, y, a, b, 1>>, fill_ellipse(Self, x, y, a, b, 1),
                  EllipseVisits(EllipseStates(TRUE, Self, EllipseStart(a, b), a * a, b * b,
                                              MaxTurns), b))

OutlineEllipseRound ==
    /\ Ready
    /\ Black
    /\ \E x \in Centres, y \in Centres, a \in Radii, b \in Radii :
        RoundCall("outline_ellipse", <<x, y, a, b, 1>>, outline_ellipse(Self, x, y, a, b, 1),
                  EllipseVisits(EllipseStates(FALSE, Self, EllipseStart(a, b), a * a, b * b,
                                              MaxTurns), b))

ThickCircleRound ==
    /\ Ready
    /\ Black
    /\ \E x \in Centres, y \in {RoundSide \div 2}, r \in Radii, t \in RoundThicks :
        RoundCall("thick_outline_circle", <<x, y, r, t, 1>>,
                  thick_outline_circle(Self, x, y, r, t, 1), ThickCircleVisits(r, t))

ThickEllipseRound ==
    /\ Ready
    /\ Black
    /\ \E x \in Centres, y \in {RoundSide \div 2}, a \in Radii, b \in Radii,
          t \in RoundThicks :
        RoundCall("thick_outline_ellipse", <<x, y, a, b, t, 1>>,
                  thick_outline_ellipse(Self, x, y, a, b, t, 1),
                  EllipseEnds(Self, EllipseAxes(a, b, I32(t \div 2)), x, y, 1))

NextRound ==
    \/ ConstructRound
    \/ ReturnRound
    \/ ClearRound
    \/ FillCircleRound
    \/ OutlineCircleRound
    \/ FillEllipseRound
    \/ OutlineEllipseRound
    \/ ThickCircleRound
    \/ ThickEllipseRound

SpecRound == InitRound /\ [][NextRound]_vars

(* ------------------------------ claims -------------------------------- *)

\* the canvas as it was when the last method was entered
Entry ==
    [buffer |-> before, width |-> width, height |-> height,
     clamped_width |-> clamped_width, clamped_height |-> clamped_height,
     writes |-> {}, failed |-> FALSE]

\* a method has been called and has ended (returned or panicked)
Called(name) == status \in {"ok", "failed"} /\ last.op = name

NonEmptyCanvas == width >= 1 /\ height >= 1

OnCanvas(x, y) == 0 <= x /\ x < width /\ 0 <= y /\ y < height

\* the buffer `buf` with colour c at the positions of S and unchanged elsewhere
Painted(buf, S, c) ==
    [i \in DOMAIN buf |-> IF <<i % width, i \div width>> \in S THEN c ELSE buf[i]]

\* the part of [x1, x2] x [y1, y2] (inclusive) that lies on the canvas
BoxOnCanvas(x1, x2, y1, y2) ==
    {p \in (Max(x1, 0)..Min(x2, width - 1)) \X (Max(y1, 0)..Min(y2, height - 1)) : TRUE}

\* the drawing methods of claim C1
DrawOps ==
    {"set_pixel", "hline", "vline", "fill_rect", "outline_rect", "thick_outline_rect",
     "fill_circle", "outline_circle", "thick_outline_circle", "fill_ellipse",
     "outline_ellipse", "line"}

\* C1: on a canvas with width >= 1 and height >= 1, every store of every drawing
\* method, whatever its signed arguments, targets a position (x, y) with
\* 0 <= x < width and 0 <= y < height, that is an index y*width + x < width*height.
C1_WritesInBounds ==
    (NonEmptyCanvas /\ status \in {"ok", "failed"} /\ last.op \in DrawOps)
        => \A p \in writes :
               /\ OnCanvas(p[1], p[2])
               /\ p[2] * width + p[1] < width * height

\* C1 witness: a thick circle outline centred off the canvas has stored to it
C1_Witness ==
    /\ Called("thick_outline_circle")
    /\ width = 2 /\ height = 2
    /\ last.args[1] < 0 /\ last.args[2] >= height
    /\ writes # {}

\* C5: set_pixel(x, y, color) with (x, y) on the canvas leaves buffer[y*width + x]
\* equal to the colour and every other element unchanged; with (x, y) off the
\* canvas it leaves the whole buffer unchanged.
C5_SetPixel ==
    Called("set_pixel") =>
        LET x == last.args[1]
            y == last.args[2]
            c == last.args[3]
        IN  /\ status = "ok"
            /\ IF OnCanvas(x, y)
               THEN buffer = [before EXCEPT ![y * width + x] = c]
               ELSE buffer = before

\* C5 witness: an on-canvas set_pixel has changed a pixel that is not the first
C5_Witness ==
    /\ Called("set_pixel")
    /\ OnCanvas(last.args[1], last.args[2])
    /\ last.args[1] = 1 /\ last.args[2] = 1
    /\ buffer # before

\* a canvas exists: construction succeeded
Constructed == status = "ok" \/ (status = "failed" /\ last.op # "new")

\* C6: once constructed, after any sequence of methods, the buffer length equals
\* width*height, clamped_width = min(width, i32::MAX), clamped_height =
\* min(height, i32::MAX), and no method changes width, height or the clamped sizes.
C6_SizeInvariant ==
    /\ [](Constructed =>
            /\ BufLen(buffer) = width * height
            /\ clamped_width = Min(width, I32Max)
            /\ clamped_height = Min(height, I32Max))
    /\ [][status = "ok" =>
            /\ width' = width
            /\ height' = height
            /\ clamped_width' = clamped_width
            /\ clamped_height' = clamped_height
            /\ BufLen(buffer') = BufLen(buffer)]_vars

\* C6 witness: a method has changed the contents of a 2x1 canvas
C6_Witness ==
    /\ Called("fill_circle")
    /\ width = 2 /\ height = 1
    /\ buffer # before

\* C7: Canvas::new(buffer, width, height) fails (no canvas) whenever the length of
\* the buffer differs from width*height; otherwise it succeeds with exactly the
\* given width and height and the caller's storage untouched.
C7_NewChecksSize ==
    Called("new") =>
        IF BufLen(before) # last.args[1] * last.args[2]
        THEN status = "failed"
        ELSE /\ status = "ok"
             /\ width = last.args[1]
             /\ height = last.args[2]
             /\ buffer = before

\* C7 witness: a buffer of length 3 was refused for width 2 and height 2
C7_Witness ==
    /\ Called("new")
    /\ BufLen(buffer) = 3
    /\ last.args = <<2, 2>>
    /\ status = "failed"

\* the cells next to p: up, down, left, right
Adjacent(p) ==
    {<<p[1], p[2] - 1>>, <<p[1], p[2] + 1>>, <<p[1] - 1, p[2]>>, <<p[1] + 1, p[2]>>}

\* the least set of cells that contains S and every cell of colour s, as the buffer
\* was on entry, next to one of its cells
RECURSIVE Connected(_, _)
Connected(S, s) ==
    LET more == {q \in (0..(width - 1)) \X (0..(height - 1)) :
                    /\ before[q[2] * width + q[1]] = s
                    /\ Adjacent(q) \cap S # {}}
        T == {q : q \in S \cup more}
    IN  IF T = S THEN S ELSE Connected(T, s)

\* the 8x8 buffer that is c on the block (2,2)-(5,5) and 0 elsewhere
Block(c) ==
    [i \in 0..63 |-> IF (i % 8) \in 2..5 /\ (i \div 8) \in 2..5 THEN c ELSE 0]

\* C2: after flood_fill(x, y, c) from a start on the canvas whose colour s differs
\* from c, a pixel has changed (to c) exactly if it belongs to the 4-connected region
\* of colour s containing (x, y), and every other pixel keeps its colour; on the 8x8
\* canvas that is RED on the block (2,2)-(5,5) and 0 elsewhere, flood_fill(3, 3, GREEN)
\* leaves the block GREEN and 0 everywhere else.
C2_FloodFillRegion ==
    Called("flood_fill") =>
        LET x == last.args[1]
            y == last.args[2]
            c == last.args[3]
        IN  /\ (OnCanvas(x, y) /\ before[y * width + x] # c) =>
                   /\ status = "ok"
                   /\ \E region \in {Connected({<<x, y>>}, before[y * width + x])} :
                          buffer = Painted(before, region, c)
            /\ (width = 8 /\ height = 8 /\ before = Block(RED) /\ last.args = <<3, 3, GREEN>>)
                   => buffer = Block(GREEN)

\* C2 witness: flood_fill(3, 3, GREEN) has run on the 8x8 canvas holding the RED block
C2_Witness ==
    /\ Called("flood_fill")
    /\ width = 8 /\ height = 8
    /\ before = Block(RED)
    /\ last.args = <<3, 3, GREEN>>

\* the box x1..x2 by y1..y2 lies entirely left of, right of, above or below the canvas
OffCanvas(x1, x2, y1, y2) == x2 < 0 \/ x1 >= width \/ y2 < 0 \/ y1 >= height

\* C3: hline, vline, fill_rect, outline_rect, fill_circle and fill_ellipse leave the
\* buffer unchanged when the requested geometry lies entirely to the left of, right
\* of, above or below the canvas.
C3_OffCanvasDrawsNothing ==
    (NonEmptyCanvas /\ status \in {"ok", "failed"}) =>
        LET a == last.args
        IN  /\ (last.op = "hline"
                  /\ OffCanvas(Min(a[2], a[3]), Max(a[2], a[3]), a[1], a[1]))
                  => buffer = before
            /\ (last.op = "vline"
                  /\ OffCanvas(a[1], a[1], Min(a[2], a[3]), Max(a[2], a[3])))
                  => buffer = before
            /\ (last.op \in {"fill_rect", "outline_rect"} /\ a[3] > 0 /\ a[4] > 0
                  /\ OffCanvas(a[1], a[1] + a[3] - 1, a[2], a[2] + a[4] - 1))
                  => buffer = before
            /\ (last.op = "fill_circle" /\ a[3] >= 1
                  /\ OffCanvas(a[1] - a[3], a[1] + a[3], a[2] - a[3], a[2] + a[3]))
                  => buffer = before
            /\ (last.op = "fill_ellipse" /\ a[3] >= 1 /\ a[4] >= 1
                  /\ OffCanvas(a[1] - a[3], a[1] + a[3], a[2] - a[4], a[2] + a[4]))
                  => buffer = before

\* C4: for a request [x, x+w) x [y, y+h) with w > 0 and h > 0 that meets the canvas,
\* clamp_rect_i32 returns 0 <= from_x <= to_x <= width and 0 <= from_y <= to_y <= height
\* describing exactly the intersection, and fill_rect sets exactly the pixels of the
\* intersection to c and leaves every other pixel unchanged.
C4_FillRectIntersection ==
    (Called("fill_rect") /\ last.args[3] > 0 /\ last.args[4] > 0
       /\ BoxOnCanvas(last.args[1], last.args[1] + last.args[3] - 1,
                      last.args[2], last.args[2] + last.args[4] - 1) # {}) =>
        LET x == last.args[1]
            y == last.args[2]
            w == last.args[3]
            h == last.args[4]
            r == clamp_rect_i32(Entry, x, x + w, y, y + h)
        IN  /\ r = <<Max(x, 0), Min(x + w, width), Max(y, 0), Min(y + h, height)>>
            /\ 0 <= r[1] /\ r[1] <= r[2] /\ r[2] <= width
            /\ 0 <= r[3] /\ r[3] <= r[4] /\ r[4] <= height
            /\ status = "ok"
            /\ buffer = Painted(before, BoxOnCanvas(x, x + w - 1, y, y + h - 1),
                                last.args[5])

\* C4 witness: a rectangle sticking out of the 2x2 canvas on the left and at the bottom
\* has been filled
C4_Witness ==
    /\ Called("fill_rect")
    /\ width = 2 /\ height = 2
    /\ last.args[1] < 0 /\ last.args[1] + last.args[3] = 1
    /\ last.args[2] = 1 /\ last.args[4] > 1
    /\ buffer # before

\* C8: fill_rect(x, y, w, h, c) with w <= 0 or h <= 0 leaves the buffer unchanged,
\* for every x and y.
C8_EmptyRectDrawsNothing ==
    (Called("fill_rect") /\ (last.args[3] <= 0 \/ last.args[4] <= 0))
        => buffer = before

\* C9: line(x1, y1, x2, y2, c) and line(x2, y2, x1, y1, c) write the same set of
\* pixels and, from the same buffer, leave the same buffer.
C9_LineSymmetric ==
    Called("line") =>
        LET a == last.args
            reversed == line(Entry, a[3], a[4], a[1], a[2], a[5])
        IN  /\ writes = reversed.writes
            /\ buffer = reversed.buffer

\* C10: for the same centre and radius r >= 1, every pixel written by outline_circle
\* is also written by fill_circle.
C10_OutlineWithinFill ==
    (Called("outline_circle") /\ last.args[3] >= 1) =>
        LET a == last.args
        IN  writes \subseteq fill_circle(Entry, a[1], a[2], a[3], a[4]).writes

\* the call left the buffer, and ended (returned or panicked), as cv did
SameOutcome(cv) == buffer = cv.buffer /\ (status = "failed") = cv.failed

\* C11: with thickness 1, thick_outline_rect, thick_outline_circle,
\* thick_outline_ellipse, thick_outline_triangle and thick_line leave, for all
\* geometry arguments, the same buffer as outline_rect, outline_circle,
\* outline_ellipse, outline_triangle and line with the same geometry and colour.
C11_ThicknessOne ==
    LET a == last.args
    IN  /\ (Called("thick_outline_rect") /\ a[5] = 1)
            => SameOutcome(outline_rect(Entry, a[1], a[2], a[3], a[4], a[6]))
        /\ (Called("thick_outline_circle") /\ a[4] = 1)
            => SameOutcome(outline_circle(Entry, a[1], a[2], a[3], a[5]))
        /\ (Called("thick_outline_ellipse") /\ a[5] = 1)
            => SameOutcome(outline_ellipse(Entry, a[1], a[2], a[3], a[4], a[6]))
        /\ (Called("thick_outline_triangle") /\ a[7] = 1)
            => SameOutcome(outline_triangle(Entry, a[1], a[2], a[3], a[4], a[5], a[6], a[8]))
        /\ (Called("thick_line") /\ a[5] = 1)
            => SameOutcome(line(Entry, a[1], a[2], a[3], a[4], a[6]))

\* thick_outline_triangle and thick_line were called with thickness 1 and drew
C11_Witness ==
    /\ status = "ok"
    /\ buffer # before
    /\ \/ last.op = "thick_outline_triangle" /\ last.args[7] = 1
       \/ last.op = "thick_line" /\ last.args[5] = 1

\* C12: hline(y, x1, x2, c) and hline(y, x2, x1, c) leave the same buffer; when row y
\* is on the canvas and the segment from min(x1, x2) to max(x1, x2), both included,
\* meets the columns 0..width-1, exactly the pixels of the segment that are on the
\* canvas are set to c and nothing else changes.  The same holds for vline with the
\* axes exchanged.
C12_SpanInclusive ==
    LET a == last.args
        lo == Min(a[2], a[3])
        hi == Max(a[2], a[3])
    IN  /\ Called("hline") =>
            /\ SameOutcome(hline(Entry, a[1], a[3], a[2], a[4]))
            /\ BoxOnCanvas(lo, hi, a[1], a[1]) # {} =>
                /\ status = "ok"
                /\ buffer = Painted(before, BoxOnCanvas(lo, hi, a[1], a[1]), a[4])
        /\ Called("vline") =>
            /\ SameOutcome(vline(Entry, a[1], a[3], a[2], a[4]))
            /\ BoxOnCanvas(a[1], a[1], lo, hi) # {} =>
                /\ status = "ok"
                /\ buffer = Painted(before, BoxOnCanvas(a[1], a[1], lo, hi), a[4])

\* an hline given from right to left, reaching over both edges of a canvas two wide,
\* has set the whole row
C12_Witness ==
    /\ status = "ok"
    /\ last.op = "hline"
    /\ last.args[2] > last.args[3]
    /\ width = 2
    /\ last.args[3] < 0
    /\ last.args[2] >= width
    /\ buffer # before
    /\ \A x \in 0..(width - 1) : buffer[last.args[1] * width + x] = last.args[4]

\* C13: for all end points (horizontal, vertical and off-canvas ones included),
\* line_maybe_axis_aligned(x1, y1, x2, y2, c) leaves exactly the same buffer as
\* line(x1, y1, x2, y2, c).
C13_AxisAlignedLikeLine ==
    Called("line_maybe_axis_aligned") =>
        LET a == last.args
        IN  SameOutcome(line(Entry, a[1], a[2], a[3], a[4], a[5]))

\* C14: for all end points and every thickness,
\* thick_line_maybe_axis_aligned(x1, y1, x2, y2, t, c) leaves exactly the same buffer
\* as thick_line(x1, y1, x2, y2, t, c), in particular for horizontal and vertical
\* requests, which it hands to thick_hline and thick_vline.
C14_ThickAxisAlignedLikeThickLine ==
    Called("thick_line_maybe_axis_aligned") =>
        LET a == last.args
        IN  SameOutcome(thick_line(Entry, a[1], a[2], a[3], a[4], a[5], a[6]))

\* C15: thick_line(x1, y1, x2, y2, thickness, c) with thickness < 1 (zero or
\* negative) leaves the buffer unchanged, for all end points.
C15_ThinnerThanOneDrawsNothing ==
    (Called("thick_line") /\ last.args[5] < 1) => (status = "ok" /\ buffer = before)

\* C16: non-positive sizes draw nothing in the circle and ellipse family: fill_circle,
\* outline_circle and thick_outline_circle with r < 1, fill_ellipse, outline_ellipse
\* and thick_outline_ellipse with a < 1 or b < 1, and thick_outline_circle,
\* thick_outline_ellipse and thick_outline_rect with thickness <= 0 all leave the
\* buffer unchanged.
C16_NonPositiveSizeDrawsNothing ==
    LET a == last.args
        op == last.op
        nothing ==
            \/ op \in {"fill_circle", "outline_circle", "thick_outline_circle"} /\ a[3] < 1
            \/ op \in {"fill_ellipse", "outline_ellipse", "thick_outline_ellipse"}
                 /\ (a[3] < 1 \/ a[4] < 1)
            \/ op = "thick_outline_circle" /\ a[4] <= 0
            \/ op \in {"thick_outline_ellipse", "thick_outline_rect"} /\ a[5] <= 0
    IN  (status \in {"ok", "failed"} /\ nothing) => (status = "ok" /\ buffer = before)

\* thick_outline_ellipse was called with thickness 0 at a centre on a canvas that
\* holds both colours, with positive radii, and a thicker call draws there
C16_Witness ==
    /\ status = "ok"
    /\ last.op = "thick_outline_ellipse"
    /\ last.args[5] = 0
    /\ last.args[3] >= 1
    /\ last.args[4] >= 1
    /\ OnCanvas(last.args[1], last.args[2])
    /\ buffer = before
    /\ thick_outline_ellipse(Entry, last.args[1], last.args[2], last.args[3],
                             last.args[4], 2, last.args[6]).buffer # before

\* C17: flood_fill(x, y, c) leaves the buffer unchanged when the pixel at (x, y)
\* already has colour c, and also when (x, y) lies outside the canvas.
C17_FloodFillNoOp ==
    Called("flood_fill") =>
        LET a == last.args
        IN  (~OnCanvas(a[1], a[2]) \/ before[a[2] * width + a[1]] = a[3])
                => (status = "ok" /\ buffer = before)

\* flood_fill was called on a pixel that already has the colour, next to pixels of
\* the other colour
C17_Witness ==
    /\ status = "ok"
    /\ last.op = "flood_fill"
    /\ width = 2
    /\ height = 2
    /\ OnCanvas(last.args[1], last.args[2])
    /\ before[last.args[2] * width + last.args[1]] = last.args[3]
    /\ \E i \in DOMAIN before : before[i] # last.args[3]

\* C18: for semi-axes a, b and a thickness of up to a few thousand pixels (a, b <=
\* 2048), no intermediate i32 computation of thick_outline_ellipse (the dx/dy
\* accumulators, the error terms) leaves the range of i32.  On a canvas with
\* width >= 1 an overflow is the only way the call can fail.
C18_NoOverflow ==
    (Called("thick_outline_ellipse") /\ clamped_width >= 1
        /\ last.args[3] <= MaxLarge /\ last.args[4] <= MaxLarge /\ last.args[5] <= MaxLarge)
        => status = "ok"

\* the R, G, B bytes of each pixel of a buffer, in the order of the buffer
PixelBytes(buf) ==
    [i \in 1..(3 * BufLen(buf)) |-> U32ToBeBytes(buf[(i - 1) \div 3])[((i - 1) % 3) + 2]]

\* C19: encode_buffer and encode_canvas, given a buffer of width * height pixels,
\* write the header line "P6 {width} {height} 255" and then exactly width * height * 3
\* bytes: the R, G, B bytes of each pixel, row by row, whatever the buffer's length
C19_EncodeBuffer ==
    (/\ last.op \in {"encode_buffer", "encode_canvas"}
     /\ BufLen(buffer) = last.args[1] * last.args[2])
        => written = Header(last.args[1], last.args[2]) \o PixelBytes(buffer)

\* C20: Color::rgb(r, g, b) is the value r * 65536 + g * 256 + b, its fourth byte 0;
\* to_rgb of any u32 is its three low bytes, whatever the fourth; and so
\* Color::rgb(r, g, b).to_rgb() is (r, g, b)
C20_RgbRoundTrip ==
    /\ [](last.op = "rgb" =>
            /\ returned = <<last.args[1] * 65536 + last.args[2] * 256 + last.args[3]>>
            /\ returned[1] \div 16777216 = 0)
    /\ [](last.op = "to_rgb" =>
            returned = <<<<(last.args[1] \div 65536) % 256, (last.args[1] \div 256) % 256,
                          last.args[1] % 256>>>>)
    /\ [][(last.op = "rgb" /\ last'.op = "to_rgb") => returned' = <<last.args>>]_vars

\* rgb(12, 1, 231) has been packed as 786919 and unpacked again
C20_Witness ==
    last.op = "to_rgb" /\ last.args = <<786919>> /\ returned = <<<<12, 1, 231>>>>

\* the pen holds bounds with xmin <= xmax and ymin <= ymax
Bounded ==
    /\ status = "ok"
    /\ pen # <<>>
    /\ pen[1].bounds # <<>>
    /\ F32Le(pen[1].bounds[1], pen[1].bounds[2])
    /\ F32Le(pen[1].bounds[3], pen[1].bounds[4])

\* xmin <= x <= xmax and ymin <= y <= ymax for the position of the pen
InBounds ==
    /\ F32Le(pen[1].bounds[1], pen[1].position[1])
    /\ F32Le(pen[1].position[1], pen[1].bounds[2])
    /\ F32Le(pen[1].bounds[3], pen[1].position[2])
    /\ F32Le(pen[1].position[2], pen[1].bounds[4])

\* C21: once ordered bounds are in the pen state (by set_bounds, set_bounds_to_canvas,
\* with_state or set_state, which clamp the current position themselves), the position
\* of the pen is within them after every set_position, set_position_draw, forward and
\* backward
C21_PenWithinBounds == Bounded => InBounds

\* the calls that move the pen and draw on the way when it is down
Moves == {"forward", "backward", "set_position_draw"}

\* the position a move with these arguments heads for, before it is bounded
Target(state, op, args) ==
    CASE op = "forward" -> Ahead(state, args[1])
      [] op = "backward" -> Ahead(state, F32Neg(args[1]))
      [] OTHER -> <<args[1], args[2]>>

\* the position of the pen is a pixel of the canvas
PenOnCanvas(cv, pos) ==
    /\ pos[1][1] = "fin" /\ pos[2][1] = "fin"
    /\ pos[1][2] \in 0..(cv.width - 1)
    /\ pos[2][2] \in 0..(cv.height - 1)

\* C22: while the pen is up, forward, backward and set_position_draw move the pen to the
\* bounded target and leave the buffer as it was; set_position never changes the buffer;
\* pen_up, pen_down and pen_toggle set is_down, and a pen that is down paints both ends
\* of a move that starts and ends on the canvas
C22_PenUpDrawsNothing ==
    /\ []((pen # <<>> /\ last.op \in Moves /\ ~pen[1].is_down) => buffer = before)
    /\ [](last.op = "set_position" => buffer = before)
    /\ []((status = "ok" /\ last.op = "pen_down") => pen[1].is_down)
    /\ []((status = "ok" /\ last.op = "pen_up") => ~pen[1].is_down)
    /\ [][(pen # <<>> /\ last'.op = "pen_toggle") => pen'[1].is_down = ~pen[1].is_down]_vars
    /\ [][(pen # <<>> /\ last'.op \in Moves /\ status' = "ok")
            => /\ pen'[1].position
                    = bound_pos(pen[1], Target(pen[1], last'.op, last'.args)[1],
                                Target(pen[1], last'.op, last'.args)[2])[1]
               /\ (pen[1].is_down /\ PenOnCanvas(Self, pen[1].position)
                        /\ PenOnCanvas(Self, pen'[1].position))
                    => \A pos \in {pen[1].position, pen'[1].position} :
                          buffer'[pos[2][2] * width + pos[1][2]] = pen[1].color]_vars

\* the pen has drawn, was lifted, and has moved forward to (1, 0) without drawing
C22_Witness ==
    /\ status = "ok"
    /\ pen # <<>>
    /\ last.op = "forward"
    /\ ~pen[1].is_down
    /\ pen[1].position = <<Fin(1), Fin(0)>>
    /\ buffer = before
    /\ \E i \in DOMAIN buffer : buffer[i] = WHITE

\* the seed-find loop has just handed its point to flood_fill_core
SeedFound ==
    /\ Len(stack) >= 2
    /\ Top(stack).fn = "core" /\ Top(stack).pc = "row" /\ Top(stack).last_row_len = 0
    /\ stack[Len(stack) - 1].fn = "start"

\* a call of flood_fill_core is about to return
CoreEnds == stack # <<>> /\ Top(stack).fn = "core" /\ Top(stack).pc = "ret"

\* C23: every call of flood_fill ends, with all the calls between flood_fill_start and
\* flood_fill_core it makes; the seed-find loop stops at a seed-coloured pixel with no
\* seed-coloured pixel directly above it or directly left of it; flood_fill_core leaves
\* its loop when the run length of a row is 0 or y has reached height; and the steps
\* leave the buffer that flood_fill leaves
C23_FloodFillTerminates ==
    /\ (stack # <<>>) ~> (stack = <<>>)
    /\ [](SeedFound =>
            /\ IsSeed(Self, Top(stack).x, Top(stack).y, Top(stack))
            /\ Top(stack).y = 0 \/ ~IsSeed(Self, Top(stack).x, Top(stack).y - 1, Top(stack))
            /\ Top(stack).x = 0 \/ ~IsSeed(Self, Top(stack).x - 1, Top(stack).y, Top(stack)))
    /\ [](CoreEnds => (Top(stack).last_row_len = 0 \/ Top(stack).y >= height))
    /\ []((last.op = "flood_fill" /\ stack = <<>>) =>
            /\ status = "ok"
            /\ buffer = flood_fill([Self EXCEPT !.buffer = before], last.args[1],
                                   last.args[2], last.args[3]).buffer)

\* a call of flood_fill_core made from inside other calls of flood_fill_start and
\* flood_fill_core is about to return
C23_Witness == CoreEnds /\ Len(stack) >= 4 /\ \E i \in 1..(Len(stack) - 1) : stack[i].fn = "core"

\* the points of the call of line in last, followed for twice as many turns and two
\* more than the claim allows
LastLine ==
    LineVisited(last.args[1], last.args[2], last.args[3], last.args[4],
                2 * Max(Abs(last.args[3] - last.args[1]), Abs(last.args[4] - last.args[2])) + 2)

\* v is no further from the endpoint w than u, and at most 1 from u
Toward(u, v, w) == Abs(v - u) <= 1 /\ Abs(w - v) <= Abs(w - u)

\* C24: the loop of line(x1, y1, x2, y2, c) ends after exactly max(|x2 - x1|, |y2 - y1|)
\* steps; it visits (x1, y1) first and (x2, y2) last; each step moves x and y by at most
\* 1 toward the endpoint; a visited point is written if and only if it is inside the canvas
C24_LineLoop ==
    (status = "ok" /\ last.op = "line") =>
        /\ Len(LastLine) = Max(Abs(last.args[3] - last.args[1]),
                               Abs(last.args[4] - last.args[2])) + 1
        /\ LastLine[1] = <<last.args[1], last.args[2]>>
        /\ LastLine[Len(LastLine)] = <<last.args[3], last.args[4]>>
        /\ \A i \in 1..(Len(LastLine) - 1) :
              /\ LastLine[i + 1] # LastLine[i]
              /\ Toward(LastLine[i][1], LastLine[i + 1][1], last.args[3])
              /\ Toward(LastLine[i][2], LastLine[i + 1][2], last.args[4])
        /\ writes = {LastLine[i] : i \in {j \in 1..Len(LastLine) :
                                            /\ 0 <= LastLine[j][1] /\ LastLine[j][1] < width
                                            /\ 0 <= LastLine[j][2] /\ LastLine[j][2] < height}}

\* a line of four steps that starts left of the canvas, crosses it and ends below it
C24_Witness ==
    /\ status = "ok"
    /\ last.op = "line"
    /\ width = MaxW /\ height = MaxH
    /\ last.args[1] < 0
    /\ last.args[4] >= height
    /\ Len(LastLine) = 5
    /\ Cardinality(writes) = 2

\* the states the loop of the last call went through
Visits == returned[1]

\* i never decreases and every turn advances i or j
Advancing(visits) ==
    \A n \in 1..(Len(visits) - 1) :
        /\ visits[n + 1][1] >= visits[n][1]
        /\ visits[n + 1][2] >= visits[n][2]
        /\ visits[n + 1][1] > visits[n][1] \/ visits[n + 1][2] > visits[n][2]

\* C25: for r, a, b >= 1 and thickness >= 2 the midpoint loops end: in fill_circle and
\* outline_circle i starts at -r, never decreases, every turn advances i or j, and the
\* loop is left with i = 0; the main loop of fill_ellipse and outline_ellipse is left with
\* i > 0 and the trailing loop with j >= b; the loop of thick_outline_circle and every
\* loop of thick_outline_ellipse end, with inner semi-axes that are zero or negative too
C25_MidpointLoopsEnd ==
    /\ last.op \in {"fill_circle", "outline_circle"} =>
            /\ Visits[1][1] = 0 - last.args[3]
            /\ Advancing(Visits)
            /\ Visits[Len(Visits)][1] = 0
    /\ last.op \in {"fill_ellipse", "outline_ellipse"} =>
            /\ Visits.main[1][1] = 0 - last.args[3]
            /\ Advancing(Visits.main)
            /\ Visits.main[Len(Visits.main)][1] > 0
            /\ Visits.tail # << >>
            /\ Visits.tail[Len(Visits.tail)] >= last.args[4]
    /\ last.op = "thick_outline_circle" =>
            ~(Visits[Len(Visits)][1] >= Visits[Len(Visits)][3])
    /\ last.op = "thick_outline_ellipse" => Visits = <<TRUE, TRUE, TRUE, TRUE, TRUE>>

\* a canvas of the given <<width, height>>
CanvasOf(wh) ==
    [Self EXCEPT !.width = wh[1], !.height = wh[2], !.clamped_width = wh[1],
                 !.clamped_height = wh[2]]

\* C26: for the same r, fill_circle and outline_circle go through the same <<i, j, err>>,
\* and for the same a and b so do fill_ellipse and outline_ellipse, in the main and in
\* the trailing loop, whatever the centre and the size of the canvas
C26_SameStates ==
    /\ last.op \in {"fill_circle", "outline_circle"} =>
            \A wh \in RoundCanvases, fill \in BOOLEAN :
                Visits = CircleStates(fill, CanvasOf(wh), CircleStart(last.args[3]), MaxTurns)
    /\ last.op \in {"fill_ellipse", "outline_ellipse"} =>
            \A wh \in RoundCanvases, fill \in BOOLEAN :
                Visits = EllipseVisits(EllipseStates(fill, CanvasOf(wh),
                                           EllipseStart(last.args[3], last.args[4]),
                                           last.args[3] * last.args[3],
                                           last.args[4] * last.args[4], MaxTurns),
                                       last.args[4])

\* C28: on a canvas of width 0 or height 0, fill_rect, hline, vline, outline_rect,
\* fill_circle and fill_ellipse return without a panic (no clamp is called with its
\* lower bound above its upper bound) and draw nothing
C28_EmptyCanvas ==
    ((width = 0 \/ height = 0)
        /\ last.op \in {"fill_rect", "hline", "vline", "outline_rect", "fill_circle",
                        "fill_ellipse"})
    => (status = "ok" /\ buffer = before /\ writes = {})

\* the vertices of the call of fill_triangle in last, after the three swaps
Sorted ==
    SortVertically(last.args[1], last.args[2], last.args[3], last.args[4],
                   last.args[5], last.args[6])

\* the three vertices <<x, y>> of <<x1, y1, x2, y2, x3, y3>>
Vertices(p) == <<<<p[1], p[2]>>, <<p[3], p[4]>>, <<p[5], p[6]>>>>

\* the orders of three vertices
Orders == {o \in [1..3 -> 1..3] : \A m, n \in 1..3 : m # n => o[m] # o[n]}

\* C27: after the three swaps of fill_triangle y1 <= y2 <= y3 and the vertices are the
\* three vertices of the call in some order, each x with its y; the denominators
\* y3 - y1 + 1, y2 - y1 + 1 and y3 - y2 + 1 of the slopes are all at least 1
C27_SortedVertices ==
    last.op = "fill_triangle" =>
        /\ Sorted[2] <= Sorted[4] /\ Sorted[4] <= Sorted[6]
        /\ \E o \in Orders : \A n \in 1..3 : Vertices(Sorted)[n] = Vertices(last.args)[o[n]]
        /\ Sorted[6] - Sorted[2] + 1 >= 1
        /\ Sorted[4] - Sorted[2] + 1 >= 1
        /\ Sorted[6] - Sorted[4] + 1 >= 1

\* a triangle given bottom vertex first, and one whose three vertices share their y
C27_Witness ==
    /\ last.op = "fill_triangle"
    /\ status = "ok"
    /\ \/ last.args[2] > last.args[4] /\ last.args[4] > last.args[6] /\ buffer # before
       \/ last.args[2] = last.args[4] /\ last.args[4] = last.args[6] /\ buffer # before

\* the stores of the call of thick_outline_ellipse in last, had its centre been (x, y)
EllipseAt(x, y) ==
    thick_outline_ellipse([Self EXCEPT !.buffer = before], x, y, last.args[3], last.args[4],
                          last.args[5], last.args[6]).writes

\* the pixel is on the canvas
Pixel(x, y) == 0 <= x /\ x < width /\ 0 <= y /\ y < height

\* offsets from the centre: as far as the canvas is wide
Offsets == (0 - RoundSide)..RoundSide

\* C29: thick_outline_ellipse paints the same offsets from the centre for every centre:
\* an offset that is on the canvas from two centres is painted from both or from
\* neither; the cut-out x.min(inner_x) does not depend on the centre
C29_TranslationInvariant ==
    (last.op = "thick_outline_ellipse" /\ status = "ok") =>
        \A x \in Centres, y \in Centres, dx \in Offsets, dy \in Offsets :
            (Pixel(last.args[1] + dx, last.args[2] + dy) /\ Pixel(x + dx, y + dy)) =>
                (<<last.args[1] + dx, last.args[2] + dy>> \in writes
                    <=> <<x + dx, y + dy>> \in EllipseAt(x, y))

\* the circle of the call of outline_circle in last lies on the canvas
CircleInside ==
    /\ Pixel(last.args[1] - last.args[3], last.args[2] - last.args[3])
    /\ Pixel(last.args[1] + last.args[3], last.args[2] + last.args[3])

\* C30: for r >= 1 and a circle inside the canvas, outline_circle(x, y, r, c) paints
\* (x + dx, y + dy) if and only if it paints (x + dy, y + dx), and it paints the four
\* points (x - r, y), (x + r, y), (x, y - r) and (x, y + r)
C30_QuarterTurn ==
    (last.op = "outline_circle" /\ CircleInside) =>
        /\ status = "ok"
        /\ \A dx \in Offsets, dy \in Offsets :
              <<last.args[1] + dx, last.args[2] + dy>> \in writes
                  <=> <<last.args[1] + dy, last.args[2] + dx>> \in writes
        /\ {<<last.args[1] - last.args[3], last.args[2]>>,
            <<last.args[1] + last.args[3], last.args[2]>>,
            <<last.args[1], last.args[2] - last.args[3]>>,
            <<last.args[1], last.args[2] + last.args[3]>>} \subseteq writes

====
